---- MODULE Spec2Model ----
(***************************************************************************)
(* A model of `bootc container lint` (lib/src/lints.rs): the registry of   *)
(* lints, lint_inner (filtering, the non-recursive lints, the shared walk  *)
(* with the recursive lints, the merge and the tally) and lint (summary    *)
(* lines and verdict).                                                     *)
(*                                                                         *)
(* A lint name is a natural number; the order of the numbers is the order  *)
(* of the names (str::cmp).  A check function is opaque: what it returns   *)
(* is drawn when the code calls it (a Regular lint is called once on the   *)
(* root) or when the walk opens the tree (a Recursive lint has one answer  *)
(* per entry of the tree).  The message of a violation found on an entry   *)
(* names that entry, as check_utf8 does with the entry's path.             *)
(***************************************************************************)
EXTENDS Naturals, Sequences, FiniteSets, TLC

\* Bounds of the model.
MaxLints == 2
MaxNodes == 2

\* Lint names, and the names a caller may pass in `skip` (one of them is
\* no registered lint).
Names == 1..MaxLints
SkipNames == 1..(MaxLints + 1)

LintType == {"Fatal", "Warning"}
LintFnTy == {"Regular", "Recursive"}
RootType == {"Running", "Alternative"}
OptionRootType == {"None"} \cup RootType
WarningDisposition == {"AllowWarnings", "FatalWarnings"}

\* struct Lint
Lint == [name : Names, ty : LintType, f : LintFnTy, root_type : OptionRootType]

\* The elements of a sequence (BTreeSet::from_iter).
Elems(s) == {s[i] : i \in DOMAIN s}

\* The names of a sequence of lints.
NameSet(s) == {s[i].name : i \in DOMAIN s}

\* The registries: every sequence of at most MaxLints lints with unique names.
Registries ==
    UNION {{s \in [1..n -> Lint] : Cardinality(NameSet(s)) = n} : n \in 0..MaxLints}

\* LintResult: Ok(Ok(())), Ok(Err(LintError(msg))) and Err(e).
lint_ok == [kind |-> "Ok", msg |-> 0]
lint_err(msg) == [kind |-> "Violation", msg |-> msg]
runtime_err(msg) == [kind |-> "Failure", msg |-> msg]
Kinds == {"Ok", "Violation", "Failure"}
MkResult(kind, msg) == IF kind = "Ok" THEN lint_ok ELSE [kind |-> kind, msg |-> msg]

\* What lint has returned: nothing yet, Ok(()), or an error.
Pending == [kind |-> "pending", what |-> "", n |-> 0]
RetOk == [kind |-> "Ok", what |-> "", n |-> 0]
RetErr(what, n) == [kind |-> "Err", what |-> what, n |-> n]

NoTally == [set |-> FALSE, passed |-> 0, skipped |-> 0, warnings |-> 0, fatal |-> 0]

\* No run of lint has finished in this process yet.
NoPrev == [set |-> FALSE, tree |-> <<>>, results |-> <<>>, visited |-> <<>>,
           output |-> <<>>, ret |-> Pending]

\* check_varlog and check_utf8 have not been given an argument, nor returned.
NoRoot == [present |-> FALSE]
NoEntry == [present |-> FALSE]
NoResult == [kind |-> "none", msg |-> 0]

VARIABLES
    LINTS,                \* the registry
    root_type,            \* argument of lint
    skip,                 \* argument of lint, collected into a set
    warning_disposition,  \* argument of lint
    pc,                   \* where the run is
    applicable_lints,     \* lint_inner: first half of the first partition, sorted
    skipped_lints,        \* lint_inner: second half of the first partition
    skipped,              \* lint_inner: skipped_lints.len()
    nonrec_lints,         \* lint_inner: the applicable Regular lints, sorted
    recursive_lints,      \* lint_inner: the BTreeSet of active Recursive lints
    recursive_errors,     \* lint_inner: the BTreeMap lint -> first non-Ok result
    results,              \* lint_inner: Vec of (lint, result)
    ri,                   \* lint_inner: how many of `results` the last loop has consumed
    fatal,
    warnings,
    passed,
    r,                    \* lint: the tally lint_inner returned
    ret,                  \* what lint returned
    output,               \* the lines written to the output sink
    tree,                 \* the tree being walked: its entries and each check's answer
    visited,              \* the entries the walk has delivered so far, in order
    broke,                \* the callback has returned ControlFlow::Break
    calls,                \* history: the check functions called, in order
    counted,              \* history: the counter each lint has incremented
    prev,                 \* history: the previous run of lint in this process
    root,                 \* check_varlog: what the root holds at var/log
    entry,                \* check_utf8: the WalkComponent it is called with
    lres,                 \* what check_varlog or check_utf8 returned
    link_read,            \* history: check_utf8 has read the target of the symlink
    thread,               \* get_all_users_keys: real, effective and saved uid of the thread
    at_entry,             \* history: `thread` when get_all_users_keys was entered
    loginctl_user_names,  \* get_all_users_keys: the names the loop has not taken yet
    user_info,            \* get_all_users_keys: the user of this iteration
    uid_change,           \* get_all_users_keys: the guard _uid_change, when it exists
    user_authorized_keys, \* get_all_users_keys: what was read from the user's file
    all_users_authorized_keys, \* get_all_users_keys: the Vec it fills
    keys_ret,             \* what get_all_users_keys returned
    events                \* history: uid changes, reads and restores, in order

vars == <<LINTS, root_type, skip, warning_disposition, pc, applicable_lints,
          skipped_lints, skipped,
          nonrec_lints, recursive_lints, recursive_errors, results, ri, fatal,
          warnings, passed, r, ret, output, tree, visited, broke, calls, counted,
          prev, root, entry, lres, link_read, thread, at_entry, loginctl_user_names,
          user_info, uid_change, user_authorized_keys, all_users_authorized_keys,
          keys_ret, events>>

\* The state of get_all_users_keys (users.rs).
usersVars == <<thread, at_entry, loginctl_user_names, user_info, uid_change,
               user_authorized_keys, all_users_authorized_keys, keys_ret, events>>

\* The state of the functions that are called on their own (check_varlog,
\* check_utf8, get_all_users_keys): a run of lint leaves it alone.
standalone == <<root, entry, lres, link_read, usersVars>>

\* No UidChange value exists; no user is being looked at.
NoGuard == [some |-> FALSE, uid |-> 0, euid |-> 0]
NoUser == [some |-> FALSE, name |-> 0, uid |-> 0]

\* The variables of get_all_users_keys when it does not run.
UsersIdle ==
    /\ thread = [ruid |-> 0, euid |-> 0, suid |-> 0]
    /\ at_entry = thread
    /\ loginctl_user_names = {}
    /\ user_info = NoUser
    /\ uid_change = NoGuard
    /\ user_authorized_keys = ""
    /\ all_users_authorized_keys = <<>>
    /\ keys_ret = Pending
    /\ events = <<>>

\* SortByName that leaves the lints in the order of the registry.
SortByName_unsorted(s) == s

\* Vec::sort_by(|a, b| a.name.cmp(b.name)): insertion of s[n] in the sorted prefix.
RECURSIVE SortByName(_)
SortByName(s) ==
    IF Len(s) <= 1 THEN s
    ELSE LET init == SortByName(SubSeq(s, 1, Len(s) - 1))
             x == s[Len(s)]
             lo == SelectSeq(init, LAMBDA y : y.name <= x.name)
             hi == SelectSeq(init, LAMBDA y : ~(y.name <= x.name))
         IN lo \o <<x>> \o hi

\* IsApplicable with the comparison of the root types inverted.
IsApplicable_inverted(lint, sk, rt) ==
    IF lint.name \in sk THEN FALSE
    ELSE IF lint.root_type # "None" /\ lint.root_type = rt THEN FALSE
    ELSE TRUE

\* IsApplicable without the test of the skip set.
IsApplicable_noskip(lint, sk, rt) ==
    IF lint.root_type # "None" /\ lint.root_type # rt THEN FALSE
    ELSE TRUE

\* IsApplicable without the test of the root type.
IsApplicable_noroot(lint, sk, rt) ==
    IF lint.name \in sk THEN FALSE
    ELSE TRUE

\* The closure of the first partition: is the lint applicable?
IsApplicable(lint, sk, rt) ==
    IF lint.name \in sk THEN FALSE
    ELSE IF lint.root_type # "None" /\ lint.root_type # rt THEN FALSE
    ELSE TRUE

\* The elements of a set of lints in ascending name order (BTreeSet iteration).
RECURSIVE InOrder(_)
InOrder(S) ==
    IF S = {} THEN <<>>
    ELSE LET lo == CHOOSE x \in S : \A y \in S : x.name <= y.name
         IN <<lo>> \o InOrder(S \ {lo})

Init ==
    /\ LINTS \in Registries
    /\ root_type \in RootType
    /\ skip \in SUBSET SkipNames
    /\ warning_disposition \in WarningDisposition
    /\ pc = "filter"
    /\ applicable_lints = <<>>
    /\ skipped_lints = <<>>
    /\ skipped = 0
    /\ nonrec_lints = <<>>
    /\ recursive_lints = {}
    /\ recursive_errors = [l \in {} |-> lint_ok]
    /\ results = <<>>
    /\ ri = 0
    /\ fatal = 0
    /\ warnings = 0
    /\ passed = 0
    /\ r = NoTally
    /\ ret = Pending
    /\ output = <<>>
    /\ tree = [n |-> 0, chk |-> [l \in {} |-> <<>>]]
    /\ visited = <<>>
    /\ broke = FALSE
    /\ calls = <<>>
    /\ counted = [n \in {} |-> ""]
    /\ prev = NoPrev
    /\ root = NoRoot
    /\ entry = NoEntry
    /\ lres = NoResult
    /\ link_read = FALSE
    /\ UsersIdle

\* lint_inner, lines 197-219: the two partitions and the sort.
Filter ==
    /\ pc = "filter"
    /\ applicable_lints' =
           SortByName(SelectSeq(LINTS, LAMBDA l : IsApplicable(l, skip, root_type)))
    /\ skipped_lints' = SelectSeq(LINTS, LAMBDA l : ~IsApplicable(l, skip, root_type))
    /\ skipped' = Len(skipped_lints')
    /\ nonrec_lints' = SelectSeq(applicable_lints', LAMBDA l : l.f = "Regular")
    /\ recursive_lints' = Elems(SelectSeq(applicable_lints', LAMBDA l : l.f # "Regular"))
    /\ pc' = "nonrec"
    /\ UNCHANGED <<prev, standalone>>
    /\ UNCHANGED <<LINTS, root_type, skip, warning_disposition, recursive_errors, results,
                   ri, fatal, warnings, passed, r, ret, output, tree, visited, broke,
                   calls, counted>>

\* The trees the walk may find: at most MaxNodes entries, and for each active
\* Recursive lint what its check returns on each entry.
Trees(S) ==
    UNION {[n : {k}, chk : [NameSet(InOrder(S)) -> [1..k -> Kinds]]] : k \in 0..MaxNodes}

\* What the Recursive lint `lint` returns on entry e of tree t.
CallRecursive(t, lint, e) == MkResult(t.chk[lint.name][e], e)

\* ThisIterationErrors that keeps the violations only: a runtime error of a
\* check is dropped and its lint stays active.
ThisIterationErrors_violations(t, active, e) ==
    SelectSeq([i \in DOMAIN active |-> [lint |-> active[i], res |-> CallRecursive(t, active[i], e)]],
              LAMBDA x : x.res.kind = "Violation")

\* lint_inner, lines 242-255: the results of the active lints on entry e that
\* are not Ok(Ok(())), in the order of the calls.
ThisIterationErrors(t, active, e) ==
    SelectSeq([i \in DOMAIN active |-> [lint |-> active[i], res |-> CallRecursive(t, active[i], e)]],
              LAMBDA x : x.res # lint_ok)

\* RemoveAll that removes nothing: a lint that failed stays active.
RemoveAll_none(S, errs) == S

\* lint_inner, line 259: BTreeSet::remove of every lint of `errs`.
RemoveAll(S, errs) == S \ {errs[i].lint : i \in DOMAIN errs}

\* lint_inner, line 260: BTreeMap::insert of every (lint, result) of `errs`;
\* an insert replaces the value of a key already there.
InsertAll(m, errs) ==
    [l \in (DOMAIN m) \cup {errs[i].lint : i \in DOMAIN errs} |->
        IF \E i \in DOMAIN errs : errs[i].lint = l
        THEN errs[CHOOSE i \in DOMAIN errs :
                      errs[i].lint = l /\ \A j \in DOMAIN errs : errs[j].lint = l => j <= i].res
        ELSE m[l]]

\* MergedResults that puts the recorded errors in front of the results of the
\* Regular lints.
MergedResults_front(res, m, S) ==
    LET errs == InOrder(DOMAIN m)
        live == InOrder(S)
    IN [i \in DOMAIN errs |-> [lint |-> errs[i], res |-> m[errs[i]]]]
           \o res
           \o [i \in DOMAIN live |-> [lint |-> live[i], res |-> lint_ok]]

\* MergedResults without the lints that are still active.
MergedResults_nolive(res, m, S) ==
    LET errs == InOrder(DOMAIN m)
    IN res \o [i \in DOMAIN errs |-> [lint |-> errs[i], res |-> m[errs[i]]]]

\* lint_inner, lines 266-268: results, then the recorded errors in key
\* order, then the lints still active, each with lint_ok().
MergedResults(res, m, S) ==
    LET errs == InOrder(DOMAIN m)
        live == InOrder(S)
    IN res \o [i \in DOMAIN errs |-> [lint |-> errs[i], res |-> m[errs[i]]]]
           \o [i \in DOMAIN live |-> [lint |-> live[i], res |-> lint_ok]]

\* Bails on every result that is not Ok(Ok(())): a violation aborts the run.
Bails_violation(res) == res.kind # "Ok"

\* Bails never: a runtime error is reported as a violation.
Bails_never(res) == FALSE

\* lint_inner, lines 271-274: a result that is Err(e) makes the loop bail.
Bails(res) == res.kind = "Failure"

\* CounterOf that counts every violation as fatal.
CounterOf_fatal(ty) == "fatal"

\* lint_inner, lines 277-286: the line a violation writes and the counter it
\* increments, by the type of the lint.
LineOf(ty) == IF ty = "Fatal" THEN "Failed lint" ELSE "Lint warning"
CounterOf(ty) == IF ty = "Fatal" THEN "fatal" ELSE "warnings"

\* What the i-th Regular lint may return when it is called on the root: any
\* result, but on a root it was called on by an earlier run of this process
\* the result it returned then (a check reads nothing but the root).
RegularOutcomes(i) == IF prev.set THEN {prev.results[i].res.kind} ELSE Kinds

\* lint_inner, lines 221-227: one iteration of the loop over nonrec_lints.
RunRegular ==
    /\ pc = "nonrec"
    /\ Len(results) < Len(nonrec_lints)
    /\ LET lint == nonrec_lints[Len(results) + 1]
       IN \E k \in RegularOutcomes(Len(results) + 1) :
            /\ results' = Append(results, [lint |-> lint, res |-> MkResult(k, 0)])
            /\ calls' = Append(calls, <<lint.name, 0>>)
    /\ UNCHANGED <<prev, standalone>>
    /\ UNCHANGED <<LINTS, root_type, skip, warning_disposition, pc, applicable_lints,
                   skipped_lints, skipped, nonrec_lints, recursive_lints, recursive_errors, ri, fatal,
                   warnings, passed, r, ret, output, tree, visited, broke, counted>>

\* The trees the walk of this run may find: any, but the same tree again when
\* an earlier run of this process has walked the root.
TreesOfRun(S) == IF prev.set THEN {prev.tree} ELSE Trees(S)

\* lint_inner, lines 229-234: the loop is over, the walk opens the root.
WalkStart ==
    /\ pc = "nonrec"
    /\ Len(results) = Len(nonrec_lints)
    /\ tree' \in TreesOfRun(recursive_lints)
    /\ pc' = "walk"
    /\ UNCHANGED <<prev, standalone>>
    /\ UNCHANGED <<LINTS, root_type, skip, warning_disposition, applicable_lints,
                   skipped_lints, skipped,
                   nonrec_lints, recursive_lints, recursive_errors, results, ri, fatal,
                   warnings, passed, r, ret, output, visited, broke, calls, counted>>

\* IsEmpty with the test inverted.
IsEmpty_inverted(S) == S # {}

\* lint_inner, line 237: BTreeSet::is_empty.
IsEmpty(S) == S = {}

\* lint_inner, lines 235-263: the callback of the walk on entry e.  The walk
\* delivers the entries in an order of its own, each at most once; after a
\* Break it may deliver further entries of other directories.
WalkEntry(e) ==
    /\ pc = "walk"
    /\ e \in (1..tree.n) \ Elems(visited)
    /\ visited' = Append(visited, e)
    /\ IF IsEmpty(recursive_lints)
       THEN /\ broke' = TRUE
            /\ UNCHANGED <<recursive_lints, recursive_errors, calls>>
       ELSE LET active == InOrder(recursive_lints)
                this_iteration_errors == ThisIterationErrors(tree, active, e)
            IN /\ calls' = calls \o [i \in DOMAIN active |-> <<active[i].name, e>>]
               /\ recursive_lints' = RemoveAll(recursive_lints, this_iteration_errors)
               /\ recursive_errors' = InsertAll(recursive_errors, this_iteration_errors)
               /\ UNCHANGED broke
    /\ UNCHANGED <<prev, standalone>>
    /\ UNCHANGED <<LINTS, root_type, skip, warning_disposition, pc, applicable_lints,
                   skipped_lints, skipped, nonrec_lints, results, ri, fatal, warnings, passed, r, ret,
                   output, tree, counted>>

\* WalkFails that first writes a line for every violation collected so far.
WalkFails_reports ==
    /\ pc = "walk"
    /\ pc' = "done"
    /\ ret' = RetErr("walk", 0)
    /\ output' = output \o
           [i \in 1..Cardinality({j \in DOMAIN results : results[j].res.kind = "Violation"}) |->
               <<"Failed lint", 0, 0>>]
    /\ UNCHANGED <<prev, standalone>>
    /\ UNCHANGED <<LINTS, root_type, skip, warning_disposition, applicable_lints,
                   skipped_lints, skipped,
                   nonrec_lints, recursive_lints, recursive_errors, results, ri, fatal,
                   warnings, passed, r, tree, visited, broke, calls, counted>>

\* lint_inner, line 264: the walk itself fails, and `?` returns its error;
\* lint, line 310, returns it in turn.
WalkFails ==
    /\ pc = "walk"
    /\ pc' = "done"
    /\ ret' = RetErr("walk", 0)
    /\ UNCHANGED <<prev, standalone>>
    /\ UNCHANGED <<LINTS, root_type, skip, warning_disposition, applicable_lints,
                   skipped_lints, skipped,
                   nonrec_lints, recursive_lints, recursive_errors, results, ri, fatal,
                   warnings, passed, r, output, tree, visited, broke, calls, counted>>

\* lint_inner, lines 264-268: the walk is over (every entry delivered, or cut
\* short by a Break); the results of the Recursive lints are appended.
WalkEnd ==
    /\ pc = "walk"
    /\ Elems(visited) = 1..tree.n \/ broke
    /\ results' = MergedResults(results, recursive_errors, recursive_lints)
    /\ pc' = "tally"
    /\ UNCHANGED <<prev, standalone>>
    /\ UNCHANGED <<LINTS, root_type, skip, warning_disposition, applicable_lints,
                   skipped_lints, skipped,
                   nonrec_lints, recursive_lints, recursive_errors, ri, fatal, warnings,
                   passed, r, ret, output, tree, visited, broke, calls, counted>>

\* lint_inner, lines 269-292: one iteration of the loop over results.  A
\* write to the output sink may fail, and `?` then returns the error.
TallyStep ==
    /\ pc = "tally"
    /\ ri < Len(results)
    /\ LET lint == results[ri + 1].lint
           name == lint.name
           res == results[ri + 1].res
       IN CASE Bails(res) ->
                 /\ ret' = RetErr("Unexpected runtime error running lint", name)
                 /\ pc' = "done"
                 /\ UNCHANGED <<ri, fatal, warnings, passed, output, counted>>
            [] ~Bails(res) /\ res.kind # "Ok" ->
                 \/ /\ output' = Append(output, <<LineOf(lint.ty), name, res.msg>>)
                    /\ fatal' = IF CounterOf(lint.ty) = "fatal" THEN fatal + 1 ELSE fatal
                    /\ warnings' = IF CounterOf(lint.ty) = "warnings" THEN warnings + 1 ELSE warnings
                    /\ counted' = (name :> CounterOf(lint.ty)) @@ counted
                    /\ ri' = ri + 1
                    /\ UNCHANGED <<passed, ret, pc>>
                 \/ /\ ret' = RetErr("write", 0)
                    /\ pc' = "done"
                    /\ UNCHANGED <<ri, fatal, warnings, passed, output, counted>>
            [] ~Bails(res) /\ res.kind = "Ok" ->
                 /\ passed' = passed + 1
                 /\ counted' = (name :> "passed") @@ counted
                 /\ ri' = ri + 1
                 /\ UNCHANGED <<fatal, warnings, output, ret, pc>>
    /\ UNCHANGED <<prev, standalone>>
    /\ UNCHANGED <<LINTS, root_type, skip, warning_disposition, applicable_lints,
                   skipped_lints, skipped,
                   nonrec_lints, recursive_lints, recursive_errors, results, r, tree,
                   visited, broke, calls>>

\* lint_inner, lines 294-299, and lint, line 310: the tally is returned.
TallyReturn ==
    /\ pc = "tally"
    /\ ri = Len(results)
    /\ r' = [set |-> TRUE, passed |-> passed, skipped |-> skipped,
             warnings |-> warnings, fatal |-> fatal]
    /\ pc' = "passed_line"
    /\ UNCHANGED <<prev, standalone>>
    /\ UNCHANGED <<LINTS, root_type, skip, warning_disposition, applicable_lints,
                   skipped_lints, skipped,
                   nonrec_lints, recursive_lints, recursive_errors, results, ri, fatal,
                   warnings, passed, ret, output, tree, visited, broke, calls, counted>>

\* A summary line of lint: written, or the write fails and lint returns the error.
SummaryLine(line, n, next) ==
    \/ /\ output' = Append(output, <<line, n, 0>>)
       /\ pc' = next
       /\ UNCHANGED ret
    \/ /\ ret' = RetErr("write", 0)
       /\ pc' = "done"
       /\ UNCHANGED output

\* lint, line 311.
LintPassedLine ==
    /\ pc = "passed_line"
    /\ SummaryLine("Checks passed", r.passed, "skipped_line")
    /\ UNCHANGED <<prev, standalone>>
    /\ UNCHANGED <<LINTS, root_type, skip, warning_disposition, applicable_lints,
                   skipped_lints, skipped,
                   nonrec_lints, recursive_lints, recursive_errors, results, ri, fatal,
                   warnings, passed, r, tree, visited, broke, calls, counted>>

\* LintSkippedLine that writes the line also when nothing was skipped.
LintSkippedLine_always ==
    /\ pc = "skipped_line"
    /\ SummaryLine("Checks skipped", r.skipped, "warnings_line")
    /\ UNCHANGED <<prev, standalone>>
    /\ UNCHANGED <<LINTS, root_type, skip, warning_disposition, applicable_lints,
                   skipped_lints, skipped,
                   nonrec_lints, recursive_lints, recursive_errors, results, ri, fatal,
                   warnings, passed, r, tree, visited, broke, calls, counted>>

\* lint, lines 312-314.
LintSkippedLine ==
    /\ pc = "skipped_line"
    /\ IF r.skipped > 0
       THEN SummaryLine("Checks skipped", r.skipped, "warnings_line")
       ELSE pc' = "warnings_line" /\ UNCHANGED <<output, ret>>
    /\ UNCHANGED <<prev, standalone>>
    /\ UNCHANGED <<LINTS, root_type, skip, warning_disposition, applicable_lints,
                   skipped_lints, skipped,
                   nonrec_lints, recursive_lints, recursive_errors, results, ri, fatal,
                   warnings, passed, r, tree, visited, broke, calls, counted>>

\* EffectiveFatal that ignores the warning disposition.
EffectiveFatal_nowarn(t, disposition) == t.fatal

\* lint, lines 315-319: the local `fatal`.
EffectiveFatal(t, disposition) ==
    IF disposition = "FatalWarnings" THEN t.fatal + t.warnings ELSE t.fatal

\* lint, lines 320-322.
LintWarningsLine ==
    /\ pc = "warnings_line"
    /\ IF r.warnings > 0
       THEN SummaryLine("Warnings", r.warnings, "verdict")
       ELSE pc' = "verdict" /\ UNCHANGED <<output, ret>>
    /\ UNCHANGED <<prev, standalone>>
    /\ UNCHANGED <<LINTS, root_type, skip, warning_disposition, applicable_lints,
                   skipped_lints, skipped,
                   nonrec_lints, recursive_lints, recursive_errors, results, ri, fatal,
                   warnings, passed, r, tree, visited, broke, calls, counted>>

\* lint, lines 323-326.
LintVerdict ==
    /\ pc = "verdict"
    /\ ret' = IF EffectiveFatal(r, warning_disposition) > 0
              THEN RetErr("Checks failed", EffectiveFatal(r, warning_disposition))
              ELSE RetOk
    /\ pc' = "done"
    /\ UNCHANGED <<prev, standalone>>
    /\ UNCHANGED <<LINTS, root_type, skip, warning_disposition, applicable_lints,
                   skipped_lints, skipped,
                   nonrec_lints, recursive_lints, recursive_errors, results, ri, fatal,
                   warnings, passed, r, output, tree, visited, broke, calls, counted>>

Next ==
    \/ Filter
    \/ RunRegular
    \/ WalkStart
    \/ \E e \in 1..MaxNodes : WalkEntry(e)
    \/ WalkFails
    \/ WalkEnd
    \/ TallyStep
    \/ TallyReturn
    \/ LintPassedLine
    \/ LintSkippedLine
    \/ LintWarningsLine
    \/ LintVerdict

Spec == Init /\ [][Next]_vars

\* lint is called a second time in the same process, with the same arguments
\* on the same root: the registry is the only state that outlives the first
\* call (every variable of lint and lint_inner is a local, lines 191-230 and
\* 303-310), the second call writes to a sink of its own.  What the first
\* call found, wrote and returned is kept in prev.
Rerun ==
    /\ pc = "done"
    /\ ~prev.set
    /\ prev' = [set |-> TRUE, tree |-> tree,
                results |-> SubSeq(results, 1, Len(nonrec_lints)),
                visited |-> visited, output |-> output, ret |-> ret]
    /\ pc' = "filter"
    /\ applicable_lints' = <<>>
    /\ skipped_lints' = <<>>
    /\ skipped' = 0
    /\ nonrec_lints' = <<>>
    /\ recursive_lints' = {}
    /\ recursive_errors' = [l \in {} |-> lint_ok]
    /\ results' = <<>>
    /\ ri' = 0
    /\ fatal' = 0
    /\ warnings' = 0
    /\ passed' = 0
    /\ r' = NoTally
    /\ ret' = Pending
    /\ output' = <<>>
    /\ tree' = [n |-> 0, chk |-> [l \in {} |-> <<>>]]
    /\ visited' = <<>>
    /\ broke' = FALSE
    /\ calls' = <<>>
    /\ counted' = [n \in {} |-> ""]
    /\ UNCHANGED <<LINTS, root_type, skip, warning_disposition, standalone>>

NextRerun ==
    \/ Next
    \/ Rerun

\* The two runs are followed for a running root and an empty skip set; the
\* registry, the warning disposition, the tree and what the checks return
\* are as free as in Init.
InitRerun ==
    /\ Init
    /\ root_type = "Running"
    /\ skip = {}

SpecRerun == InitRerun /\ [][NextRerun]_vars

(***************************************************************************)
(* lint_list (lines 177-181): the registry is serialized to the output     *)
(* sink as one YAML document, a sequence with one mapping per lint.        *)
(***************************************************************************)

\* The description of a registered lint: a static text of its own, set with
\* its name where the lint is declared.
DescriptionOf(l) == <<"description of", l.name>>

\* serde(rename_all = "kebab-case") on LintType; RootType is not renamed.
SerializeLintType(ty) == IF ty = "Fatal" THEN "fatal" ELSE "warning"
SerializeRootType(rt) == rt

\* SerializeLint without skip_serializing_if: a root_type of None is written
\* too.
SerializeLint_null(l) ==
    << <<"name", l.name>>,
       <<"type", SerializeLintType(l.ty)>>,
       <<"description", DescriptionOf(l)>>,
       <<"root-type", SerializeRootType(l.root_type)>> >>

\* derive(Serialize) on Lint, lines 103-115: the fields in the order of the
\* struct, `ty` renamed "type", `f` skipped, `root_type` renamed
\* "root-type" by kebab-case and skipped when it is None.
SerializeLint(l) ==
    << <<"name", l.name>>,
       <<"type", SerializeLintType(l.ty)>>,
       <<"description", DescriptionOf(l)>> >>
    \o (IF l.root_type = "None" THEN <<>>
        ELSE << <<"root-type", SerializeRootType(l.root_type)>> >>)

\* Serialize for a slice: one element per lint, in the order of the slice.
SerializeLints(lints) == [i \in DOMAIN lints |-> SerializeLint(lints[i])]

\* lint_list is called: nothing of lint is running.
InitList ==
    /\ LINTS \in Registries
    /\ root_type = "Running"
    /\ skip = {}
    /\ warning_disposition = "AllowWarnings"
    /\ pc = "list"
    /\ applicable_lints = <<>>
    /\ skipped_lints = <<>>
    /\ skipped = 0
    /\ nonrec_lints = <<>>
    /\ recursive_lints = {}
    /\ recursive_errors = [l \in {} |-> lint_ok]
    /\ results = <<>>
    /\ ri = 0
    /\ fatal = 0
    /\ warnings = 0
    /\ passed = 0
    /\ r = NoTally
    /\ ret = Pending
    /\ output = <<>>
    /\ tree = [n |-> 0, chk |-> [l \in {} |-> <<>>]]
    /\ visited = <<>>
    /\ broke = FALSE
    /\ calls = <<>>
    /\ counted = [n \in {} |-> ""]
    /\ prev = NoPrev
    /\ root = NoRoot
    /\ entry = NoEntry
    /\ lres = NoResult
    /\ link_read = FALSE
    /\ UsersIdle

\* What lint_list leaves alone: everything but the sink, its return value and
\* its position.
listUnchanged ==
    <<LINTS, root_type, skip, warning_disposition, applicable_lints, skipped_lints,
      skipped, nonrec_lints, recursive_lints, recursive_errors, results, ri, fatal,
      warnings, passed, r, tree, visited, broke, calls, counted, prev, standalone>>

\* lint_list, lines 179-180: serde_yaml::to_writer writes the document and
\* lint_list returns Ok(()).
LintList ==
    /\ pc = "list"
    /\ output' = Append(output, [entries |-> SerializeLints(LINTS), complete |-> TRUE])
    /\ ret' = RetOk
    /\ pc' = "done"
    /\ UNCHANGED listUnchanged

\* lint_list, line 179: to_writer fails (the sink refuses a write) and `?`
\* returns the error; the sink holds what was written until then, some of
\* the mappings.
LintListFails ==
    /\ pc = "list"
    /\ \E k \in 0..Len(LINTS) :
          output' = Append(output, [entries |-> SubSeq(SerializeLints(LINTS), 1, k),
                                    complete |-> FALSE])
    /\ ret' = RetErr("write", 0)
    /\ pc' = "done"
    /\ UNCHANGED listUnchanged

NextList ==
    \/ LintList
    \/ LintListFails

SpecList == InitList /\ [][NextList]_vars

(***************************************************************************)
(* check_varlog (lines 602-619) and collect_nonempty_regfiles (568-588).   *)
(* A file name is a sequence of bytes and a path below var/log a sequence  *)
(* of file names.  The bytes have their ASCII values: '-' is 45, '/' is 47  *)
(* and the letters come after both.                                        *)
(***************************************************************************)
Dash == 45
Slash == 47
LetterA == 97
LetterB == 98

\* The largest size of a file of the trees that are tried.
MaxFileSize == 1

\* The names "a", "a-" and "b", and the paths below var/log that are tried:
\* a, a-, b, a/b and a-/b.
NameA == <<LetterA>>
NameADash == <<LetterA, Dash>>
NameB == <<LetterB>>
VarLogPaths == {<<NameA>>, <<NameADash>>, <<NameB>>, <<NameA, NameB>>, <<NameADash, NameB>>}

\* What a path holds: nothing, or an entry with its file type, its size (for
\* a symlink the size of what it points to) and whether every operation on
\* it succeeds (it does not when the name is not UTF-8, or when reading its
\* type, its metadata or its directory fails).
Absent == [ty |-> "absent", size |-> 0, ok |-> TRUE]
DirEntries ==
    [ty : {"file", "symlink"}, size : 0..MaxFileSize, ok : BOOLEAN]
    \cup [ty : {"dir", "other"}, size : {0}, ok : BOOLEAN]

\* The parent of a path below var/log (var/log itself is <<>>).
Parent(p) == SubSeq(p, 1, Len(p) - 1)

\* The contents of var/log: a path holds something only under a directory,
\* or under a symlink (which then points to a directory that holds it).
VarLogTrees ==
    {t \in [VarLogPaths -> DirEntries \cup {Absent}] :
        \A p \in VarLogPaths :
            (Len(p) > 1 /\ t[p] # Absent) => t[Parent(p)].ty \in {"dir", "symlink"}}

\* The roots check_varlog is tried on: var/log is missing, cannot be opened
\* as a directory, or is a directory with one of the contents above.
VarLogRoots ==
    {[present |-> TRUE, varlog |-> "missing", t |-> [p \in VarLogPaths |-> Absent]],
     [present |-> TRUE, varlog |-> "unopenable", t |-> [p \in VarLogPaths |-> Absent]]}
    \cup {[present |-> TRUE, varlog |-> "dir", t |-> t] : t \in VarLogTrees}

\* FileType::is_file and FileType::is_dir of DirEntry::file_type, which does
\* not follow a symlink.
IsFile(x) == x.ty = "file"
IsDir(x) == x.ty = "dir"

\* The entries of the directory at path dir.
Children(t, dir) == {p \in VarLogPaths : Parent(p) = dir /\ t[p] # Absent}

\* collect_nonempty_regfiles, lines 568-588: err when an operation on an
\* entry of the directory, or the recursion into a subdirectory, fails;
\* otherwise out holds the paths inserted.
RECURSIVE collect_nonempty_regfiles(_, _)
collect_nonempty_regfiles(t, path) ==
    LET entries == Children(t, path)
        files == {p \in entries : t[p].ok /\ IsFile(t[p]) /\ t[p].size > 0}
        dirs == {p \in entries : t[p].ok /\ ~IsFile(t[p]) /\ IsDir(t[p])}
        sub == [p \in dirs |-> collect_nonempty_regfiles(t, p)]
    IN [err |-> (\E p \in entries : ~t[p].ok) \/ (\E p \in dirs : sub[p].err),
        out |-> files \cup UNION {sub[p].out : p \in dirs}]

\* str::cmp: the order of two file names, byte by byte; a proper prefix is
\* less.
NameLess(a, b) ==
    \E k \in 1..(Len(b)) :
        /\ \A i \in 1..(k - 1) : i <= Len(a) /\ a[i] = b[i]
        /\ \/ k = Len(a) + 1
           \/ k <= Len(a) /\ a[k] < b[k]

\* PathLess that compares the two paths as strings, byte by byte.
RECURSIVE Flatten(_)
Flatten(p) == IF p = <<>> THEN <<>> ELSE <<Slash>> \o Head(p) \o Flatten(Tail(p))
PathLess_bytes(p, q) == NameLess(Flatten(p), Flatten(q))

\* Ord for Utf8PathBuf, the order of the BTreeSet of line 606: the two paths
\* are compared component by component; a proper prefix is less.
PathLess(p, q) ==
    \E k \in 1..(Len(q)) :
        /\ \A i \in 1..(k - 1) : i <= Len(p) /\ p[i] = q[i]
        /\ \/ k = Len(p) + 1
           \/ k <= Len(p) /\ NameLess(p[k], q[k])

\* BTreeSet::into_iter().next(): the least element.
First(S) == CHOOSE p \in S : \A q \in S \ {p} : PathLess(p, q)

\* Others that counts the first file too.
Others_all(S) == Cardinality(S)

\* line 611: the length of the iterator after next().
Others(S) == Cardinality(S) - 1

\* Display of the path below "/var/log": its bytes.
Display(p) == Flatten(p)

\* lines 612-618: the message, with " (and {others} more)" when others > 0.
VarlogMessage(S) ==
    [text |-> "Found non-empty logfile", first |-> Display(First(S)),
     more |-> Others(S) > 0, others |-> Others(S)]

\* check_varlog, lines 602-619.
check_varlog(rt) ==
    IF rt.varlog = "unopenable" THEN runtime_err(<<>>)
    ELSE IF rt.varlog = "missing" THEN lint_ok
    ELSE LET c == collect_nonempty_regfiles(rt.t, <<>>)
         IN IF c.err THEN runtime_err(<<>>)
            ELSE IF c.out = {} THEN lint_ok
            ELSE lint_err(VarlogMessage(c.out))

\* The variables of a run of lint and of lint_list, when neither runs.
LintIdle ==
    /\ LINTS = <<>>
    /\ root_type = "Running"
    /\ skip = {}
    /\ warning_disposition = "AllowWarnings"
    /\ applicable_lints = <<>>
    /\ skipped_lints = <<>>
    /\ skipped = 0
    /\ nonrec_lints = <<>>
    /\ recursive_lints = {}
    /\ recursive_errors = [l \in {} |-> lint_ok]
    /\ results = <<>>
    /\ ri = 0
    /\ fatal = 0
    /\ warnings = 0
    /\ passed = 0
    /\ r = NoTally
    /\ ret = Pending
    /\ output = <<>>
    /\ tree = [n |-> 0, chk |-> [l \in {} |-> <<>>]]
    /\ visited = <<>>
    /\ broke = FALSE
    /\ calls = <<>>
    /\ counted = [n \in {} |-> ""]
    /\ prev = NoPrev

lintVars ==
    <<LINTS, root_type, skip, warning_disposition, applicable_lints, skipped_lints,
      skipped, nonrec_lints, recursive_lints, recursive_errors, results, ri, fatal,
      warnings, passed, r, ret, output, tree, visited, broke, calls, counted, prev>>

\* check_varlog is called on a root.
InitVarlog ==
    /\ LintIdle
    /\ pc = "varlog"
    /\ root \in VarLogRoots
    /\ entry = NoEntry
    /\ lres = NoResult
    /\ link_read = FALSE
    /\ UsersIdle

CheckVarlog ==
    /\ pc = "varlog"
    /\ lres' = check_varlog(root)
    /\ pc' = "done"
    /\ UNCHANGED <<lintVars, root, entry, link_read, usersVars>>

NextVarlog == CheckVarlog

SpecVarlog == InitVarlog /\ [][NextVarlog]_vars

(***************************************************************************)
(* check_utf8 (lines 434-456), called with one WalkComponent.              *)
(***************************************************************************)

\* The byte 0xFF, which no UTF-8 text holds, and the characters of its
\* escape: '"' is 34, '\' is 92, 'x' is 120 and 'F' is 70.
ByteFF == 255
Quote == 34
Backslash == 92
LowerX == 120
UpperF == 70

\* The longest file name and symlink target that are tried.
MaxNameLen == 2

\* The file names and the symlink targets: the sequences of 'a' and 0xFF.
RawNames == UNION {[1..n -> {LetterA, ByteFF}] : n \in 1..MaxNameLen}

\* What reading a symlink gives: its target, or an error; NoTarget for an
\* entry that is no symlink.
NoTarget == [ok |-> TRUE, bytes |-> <<>>]
LinkContents == [ok : {TRUE}, bytes : RawNames] \cup {[ok |-> FALSE, bytes |-> <<>>]}

\* The WalkComponents the walk may deliver: an entry of the root or of the
\* directory /a, with its name, its file type and, for a symlink, what
\* reading the link gives.
WalkComponents ==
    [present : {TRUE}, dir : {<<>>, <<NameA>>}, filename : RawNames,
     file_type : {"file", "dir"}, link : {NoTarget}]
    \cup [present : {TRUE}, dir : {<<>>, <<NameA>>}, filename : RawNames,
          file_type : {"symlink"}, link : LinkContents]

\* WalkComponent::path: the directory of the entry and its name.
PathOf(c) == c.dir \o <<c.filename>>

\* OsStr::to_str and Path::to_str: Some for a valid UTF-8 text.
IsUtf8(bytes) == \A i \in DOMAIN bytes : bytes[i] # ByteFF

\* Path::parent: None for the root.
PathParent(path) ==
    IF path = <<>> THEN [some |-> FALSE, path |-> <<>>]
    ELSE [some |-> TRUE, path |-> SubSeq(path, 1, Len(path) - 1)]

\* line 437: path.parent().unwrap_or(Path::new("/")); the root is <<>>.
Dirname(path) == IF PathParent(path).some THEN PathParent(path).path ELSE <<>>

\* The Debug format of the file name, line 441: between quotes, a byte that
\* is not text escaped as \xFF.
RECURSIVE EscapeBytes(_)
EscapeBytes(bytes) ==
    IF bytes = <<>> THEN <<>>
    ELSE (IF Head(bytes) = ByteFF THEN <<Backslash, LowerX, UpperF, UpperF>>
          ELSE <<Head(bytes)>>) \o EscapeBytes(Tail(bytes))
DebugFormat(bytes) == <<Quote>> \o EscapeBytes(bytes) \o <<Quote>>

\* PathQuotedDisplay of a path whose names need no quoting, as in the
\* messages test_non_utf8 expects (lines 984-1010): "/" for the root,
\* otherwise the names, each after a '/'.
PathQuotedDisplay(path) == IF path = <<>> THEN <<Slash>> ELSE Flatten(path)

\* check_utf8 that reads the target of a symlink before it looks at the
\* name.
check_utf8_target_first(c) ==
    IF c.file_type = "symlink" /\ ~c.link.ok
    THEN [res |-> runtime_err(<<>>), read |-> TRUE]
    ELSE IF c.file_type = "symlink" /\ ~IsUtf8(c.link.bytes)
    THEN [res |-> lint_err([text |-> "Found non-utf8 symlink target",
                            where |-> PathQuotedDisplay(PathOf(c)), name |-> <<>>]),
          read |-> TRUE]
    ELSE IF ~IsUtf8(c.filename)
    THEN [res |-> lint_err([text |-> "Found non-utf8 filename",
                            where |-> PathQuotedDisplay(Dirname(PathOf(c))),
                            name |-> DebugFormat(c.filename)]),
          read |-> c.file_type = "symlink"]
    ELSE [res |-> lint_ok, read |-> c.file_type = "symlink"]

\* check_utf8, lines 434-456: what it returns, and whether it has read the
\* target of the symlink (line 447).
check_utf8(c) ==
    IF ~IsUtf8(c.filename)
    THEN [res |-> lint_err([text |-> "Found non-utf8 filename",
                            where |-> PathQuotedDisplay(Dirname(PathOf(c))),
                            name |-> DebugFormat(c.filename)]),
          read |-> FALSE]
    ELSE IF c.file_type = "symlink"
    THEN IF ~c.link.ok
         THEN [res |-> runtime_err(<<>>), read |-> TRUE]
         ELSE IF ~IsUtf8(c.link.bytes)
         THEN [res |-> lint_err([text |-> "Found non-utf8 symlink target",
                                 where |-> PathQuotedDisplay(PathOf(c)), name |-> <<>>]),
               read |-> TRUE]
         ELSE [res |-> lint_ok, read |-> TRUE]
    ELSE [res |-> lint_ok, read |-> FALSE]

\* check_utf8 is called with a WalkComponent.
InitUtf8 ==
    /\ LintIdle
    /\ pc = "utf8"
    /\ root = NoRoot
    /\ entry \in WalkComponents
    /\ lres = NoResult
    /\ link_read = FALSE
    /\ UsersIdle

CheckUtf8 ==
    /\ pc = "utf8"
    /\ lres' = check_utf8(entry).res
    /\ link_read' = check_utf8(entry).read
    /\ pc' = "done"
    /\ UNCHANGED <<lintVars, root, entry, usersVars>>

NextUtf8 == CheckUtf8

SpecUtf8 == InitUtf8 /\ [][NextUtf8]_vars

(***************************************************************************)
(* get_all_users_keys (users.rs, lines 105-170) and the guard UidChange    *)
(* (62-79).  A uid is a small number, 0 being root; a user name is a       *)
(* number, and the BTreeSet of names is iterated in ascending order.       *)
(***************************************************************************)

MaxUid == 2
MaxUsers == 3

Uids == 0..MaxUid
UserNames == 1..MaxUsers

\* loginctl_parse, lines 36-38: "root" is always in the set of names.
RootName == 2

\* rustix set_thread_res_uid (setresuid for the calling thread): it sets the
\* three uids together or fails and changes nothing.  A thread may always set
\* each of them to one of its current real, effective and saved uids; any
\* other value needs a privilege the thread may or may not have.
set_thread_res_uid(t, ruid, euid, suid) ==
    {[ok |-> TRUE, thread |-> [ruid |-> ruid, euid |-> euid, suid |-> suid]]}
    \cup IF {ruid, euid, suid} \subseteq {t.ruid, t.euid, t.suid}
         THEN {}
         ELSE {[ok |-> FALSE, thread |-> t]}

\* UidChange::new, lines 67-71: the real uid is kept, the effective uid is
\* set to change_to_uid and the saved uid to the effective uid of before.
UidChange_new(t, change_to_uid) ==
    LET uid == t.ruid
        euid == t.euid
    IN {[ok |-> c.ok, thread |-> c.thread,
         guard |-> IF c.ok THEN [some |-> TRUE, uid |-> uid, euid |-> euid] ELSE NoGuard] :
            c \in set_thread_res_uid(t, uid, change_to_uid, euid)}

\* A drop that leaves the uids of the thread as they are.
UidChange_drop_keeps(t, g) == {[ok |-> TRUE, thread |-> t]}

\* Drop for UidChange, lines 74-78: the effective and the saved uid are set
\* to the effective uid the guard holds.
UidChange_drop(t, g) == set_thread_res_uid(t, g.uid, g.euid, g.euid)

\* The name the loop of line 110 takes next.
NextUserName == CHOOSE n \in loginctl_user_names : \A m \in loginctl_user_names : n <= m

\* The outcomes of std::fs::read_to_string that the function tells apart:
\* text with keys, and text that is empty once trimmed (line 143).
Contents == {"keys", "blank"}

UserKeys(name) == [user |-> name, authorized_keys |-> "keys"]

\* get_all_users_keys is called by a thread with any uids.
InitUsers ==
    /\ LintIdle
    /\ pc = "users"
    /\ root = NoRoot
    /\ entry = NoEntry
    /\ lres = NoResult
    /\ link_read = FALSE
    /\ thread \in [ruid : Uids, euid : Uids, suid : Uids]
    /\ at_entry = thread
    /\ loginctl_user_names = {}
    /\ user_info = NoUser
    /\ uid_change = NoGuard
    /\ user_authorized_keys = ""
    /\ all_users_authorized_keys = <<>>
    /\ keys_ret = Pending
    /\ events = <<>>

\* What no step of get_all_users_keys touches.
usersUnchanged == <<lintVars, root, entry, lres, link_read, at_entry>>

\* Line 106: loginctl_users returns the names, "root" among them.
LoginctlUsers ==
    /\ pc = "users"
    /\ \E S \in SUBSET UserNames :
          /\ RootName \in S
          /\ loginctl_user_names' = S
    /\ pc' = "loop"
    /\ UNCHANGED <<thread, user_info, uid_change, user_authorized_keys,
                   all_users_authorized_keys, keys_ret, events>>
    /\ UNCHANGED usersUnchanged

\* Line 106: loginctl_users fails and `?` returns the error.
LoginctlUsersFails ==
    /\ pc = "users"
    /\ keys_ret' = RetErr("enumerate users", 0)
    /\ pc' = "done"
    /\ UNCHANGED <<thread, loginctl_user_names, user_info, uid_change,
                   user_authorized_keys, all_users_authorized_keys, events>>
    /\ UNCHANGED usersUnchanged

\* Lines 110-112: the next name is taken and uzers does not know the user.
UserNotFound ==
    /\ pc = "loop"
    /\ loginctl_user_names # {}
    /\ loginctl_user_names' = loginctl_user_names \ {NextUserName}
    /\ keys_ret' = RetErr("user not found", NextUserName)
    /\ pc' = "done"
    /\ UNCHANGED <<thread, user_info, uid_change, user_authorized_keys,
                   all_users_authorized_keys, events>>
    /\ UNCHANGED usersUnchanged

\* Lines 110-123: the user has no authorized_keys file: continue.
NoAuthorizedKeysFile ==
    /\ pc = "loop"
    /\ loginctl_user_names # {}
    /\ loginctl_user_names' = loginctl_user_names \ {NextUserName}
    /\ UNCHANGED <<pc, thread, user_info, uid_change, user_authorized_keys,
                   all_users_authorized_keys, keys_ret, events>>
    /\ UNCHANGED usersUnchanged

\* Lines 110-128: the user's name is not valid UTF-8 and `?` returns.
UserNameNotUtf8 ==
    /\ pc = "loop"
    /\ loginctl_user_names # {}
    /\ loginctl_user_names' = loginctl_user_names \ {NextUserName}
    /\ keys_ret' = RetErr("user name is not valid utf-8", NextUserName)
    /\ pc' = "done"
    /\ UNCHANGED <<thread, user_info, uid_change, user_authorized_keys,
                   all_users_authorized_keys, events>>
    /\ UNCHANGED usersUnchanged

\* Lines 110-133: the user is known, with some uid, and has the file; the
\* block of line 130 is entered.
EnterScope ==
    /\ pc = "loop"
    /\ loginctl_user_names # {}
    /\ loginctl_user_names' = loginctl_user_names \ {NextUserName}
    /\ \E user_uid \in Uids :
          user_info' = [some |-> TRUE, name |-> NextUserName, uid |-> user_uid]
    /\ pc' = "scope"
    /\ UNCHANGED <<thread, uid_change, user_authorized_keys,
                   all_users_authorized_keys, keys_ret, events>>
    /\ UNCHANGED usersUnchanged

\* Line 137: UidChange::new changes the effective uid and the guard exists.
UidChangeNew ==
    /\ pc = "scope"
    /\ \E c \in UidChange_new(thread, user_info.uid) :
          /\ c.ok
          /\ thread' = c.thread
          /\ uid_change' = c.guard
    /\ events' = Append(events, [ev |-> "change", name |-> user_info.name,
                                 euid |-> thread'.euid])
    /\ pc' = "read"
    /\ UNCHANGED <<loginctl_user_names, user_info, user_authorized_keys,
                   all_users_authorized_keys, keys_ret>>
    /\ UNCHANGED usersUnchanged

\* Line 137: UidChange::new fails and `?` returns its error; no guard was
\* made.
UidChangeFails ==
    /\ pc = "scope"
    /\ \E c \in UidChange_new(thread, user_info.uid) :
          /\ ~c.ok
          /\ thread' = c.thread
          /\ uid_change' = c.guard
    /\ events' = Append(events, [ev |-> "change failed", name |-> user_info.name,
                                 euid |-> thread'.euid])
    /\ keys_ret' = RetErr("setting effective uid failed", 0)
    /\ pc' = "done"
    /\ UNCHANGED <<loginctl_user_names, user_info, user_authorized_keys,
                   all_users_authorized_keys>>
    /\ UNCHANGED usersUnchanged

\* The guard leaves its scope: drop runs, and `expect` panics when the uid
\* could not be set.  `next` is where the function goes on otherwise.
DropGuard(read, next, result) ==
    \E d \in UidChange_drop(thread, uid_change) :
        /\ thread' = d.thread
        /\ uid_change' = NoGuard
        /\ IF d.ok
           THEN /\ events' = events \o <<read, [ev |-> "restore", name |-> user_info.name,
                                                euid |-> thread'.euid]>>
                /\ pc' = next
                /\ keys_ret' = result
           ELSE /\ events' = Append(events, read)
                /\ pc' = "panic"
                /\ UNCHANGED keys_ret

\* Lines 139-141: the file is read and the block ends.
ReadToString ==
    /\ pc = "read"
    /\ user_authorized_keys' \in Contents
    /\ DropGuard([ev |-> "read", name |-> user_info.name, euid |-> thread.euid],
                 "after", keys_ret)
    /\ UNCHANGED <<loginctl_user_names, user_info, all_users_authorized_keys>>
    /\ UNCHANGED usersUnchanged

\* Lines 139-140: the read fails and `?` returns out of the block.
ReadToStringFails ==
    /\ pc = "read"
    /\ DropGuard([ev |-> "read", name |-> user_info.name, euid |-> thread.euid],
                 "done", RetErr("Failed to read user's authorized keys", 0))
    /\ UNCHANGED <<loginctl_user_names, user_info, user_authorized_keys,
                   all_users_authorized_keys>>
    /\ UNCHANGED usersUnchanged

\* Lines 143-149: the file holds no key: continue.
SkipEmptyKeys ==
    /\ pc = "after"
    /\ user_authorized_keys = "blank"
    /\ user_info' = NoUser
    /\ user_authorized_keys' = ""
    /\ pc' = "loop"
    /\ UNCHANGED <<thread, loginctl_user_names, uid_change, all_users_authorized_keys,
                   keys_ret, events>>
    /\ UNCHANGED usersUnchanged

\* Lines 151-158: the path of the file is not valid UTF-8 and `?` returns.
KeysPathNotUtf8 ==
    /\ pc = "after"
    /\ user_authorized_keys # "blank"
    /\ keys_ret' = RetErr("user's authorized_keys path is not valid utf-8", 0)
    /\ pc' = "done"
    /\ UNCHANGED <<thread, loginctl_user_names, user_info, uid_change,
                   user_authorized_keys, all_users_authorized_keys, events>>
    /\ UNCHANGED usersUnchanged

\* Lines 151-166: the user's keys are pushed.
PushUserKeys ==
    /\ pc = "after"
    /\ user_authorized_keys # "blank"
    /\ all_users_authorized_keys' = Append(all_users_authorized_keys, UserKeys(user_info.name))
    /\ user_info' = NoUser
    /\ user_authorized_keys' = ""
    /\ pc' = "loop"
    /\ UNCHANGED <<thread, loginctl_user_names, uid_change, keys_ret, events>>
    /\ UNCHANGED usersUnchanged

\* Line 169: the loop is over and the Vec is returned.
ReturnKeys ==
    /\ pc = "loop"
    /\ loginctl_user_names = {}
    /\ keys_ret' = RetOk
    /\ pc' = "done"
    /\ UNCHANGED <<thread, loginctl_user_names, user_info, uid_change,
                   user_authorized_keys, all_users_authorized_keys, events>>
    /\ UNCHANGED usersUnchanged

NextUsers ==
    \/ LoginctlUsers
    \/ LoginctlUsersFails
    \/ UserNotFound
    \/ NoAuthorizedKeysFile
    \/ UserNameNotUtf8
    \/ EnterScope
    \/ UidChangeNew
    \/ UidChangeFails
    \/ ReadToString
    \/ ReadToStringFails
    \/ SkipEmptyKeys
    \/ KeysPathNotUtf8
    \/ PushUserKeys
    \/ ReturnKeys

SpecUsers == InitUsers /\ [][NextUsers]_vars

(***************************************************************************)
(* State functions the properties below are stated with.                   *)
(***************************************************************************)

\* The lint's applicability admits the root type of the run.
Admits(l) == l.root_type = "None" \/ l.root_type = root_type

\* The names of the registered lints whose applicability admits the root type.
AdmittedNames == {l.name : l \in {x \in Elems(LINTS) : Admits(x)}}

\* The names of the lints whose check function has been called.
CalledNames == {calls[i][1] : i \in DOMAIN calls}

\* The names the violation lines of the transcript carry.
IsViolationLine(x) == x[1] \in {"Failed lint", "Lint warning"}
LineNames == {output[i][2] : i \in {j \in DOMAIN output : IsViolationLine(output[j])}}

\* The lints that have incremented the counter c.
CountedAs(c) == {n \in DOMAIN counted : counted[n] = c}

\* A sequence without a repeated element.
NoDup(s) == Cardinality(Elems(s)) = Len(s)

(***************************************************************************)
(* C1: once lint_inner has filtered the registry, every registered lint is *)
(* in exactly one of skipped_lints and applicable_lints; it is skipped if  *)
(* and only if its name is in the skip set or its root_type is set and     *)
(* differs from the root type of the run, and applicable otherwise.        *)
(***************************************************************************)
C1_Classification ==
    pc # "filter" =>
        /\ \A l \in Elems(LINTS) :
              LET sk == l \in Elems(skipped_lints)
                  ap == l \in Elems(applicable_lints)
              IN /\ sk <=> (l.name \in skip \/ (l.root_type # "None" /\ l.root_type # root_type))
                 /\ ap <=> ~sk
        /\ Elems(skipped_lints) \cup Elems(applicable_lints) = Elems(LINTS)
        /\ Len(skipped_lints) + Len(applicable_lints) = Len(LINTS)

\* C1: a run whose filter has put one lint in each class.
C1_Witness ==
    /\ pc = "nonrec"
    /\ Len(skipped_lints) = 1
    /\ Len(applicable_lints) = 1

\* No lint named in the skip set is called, counted or named in a line.
C2_SkipNamedNeverRuns ==
    \A n \in skip : n \notin CalledNames /\ n \notin DOMAIN counted /\ n \notin LineNames

(***************************************************************************)
(* C2, as stated: a run that returns a tally has skipped equal to the      *)
(* number of names of the skip set that are lints admitted by the root     *)
(* type, and no lint named in the skip set is called or counted.           *)
(***************************************************************************)
C2_Original ==
    /\ r.set => r.skipped = Cardinality(skip \cap AdmittedNames)
    /\ C2_SkipNamedNeverRuns

(***************************************************************************)
(* C2, amended: a run that returns a tally has skipped equal to the number *)
(* of names of the skip set that are lints admitted by the root type plus  *)
(* the number of registered lints the root type does not admit; no lint    *)
(* named in the skip set is called, counted in passed, fatal or warnings,  *)
(* or named in a line.                                                     *)
(***************************************************************************)
C2_SkipList ==
    /\ r.set => r.skipped = Cardinality(skip \cap AdmittedNames)
                            + Cardinality({l \in Elems(LINTS) : ~Admits(l)})
    /\ C2_SkipNamedNeverRuns

\* C2: a tally whose skipped counts one lint named in the skip set and one
\* lint the root type excludes.
C2_Witness ==
    /\ r.set
    /\ Cardinality(skip \cap AdmittedNames) = 1
    /\ r.skipped = 2

(***************************************************************************)
(* C3: a lint restricted to the other root type than the run's is in       *)
(* skipped_lints, which `skipped` counts, is never called and has no line  *)
(* in the transcript and no part in passed, fatal or warnings; a lint      *)
(* with no restriction is skipped only when the skip set names it.         *)
(***************************************************************************)
C3_RootTypeFiltering ==
    /\ \A l \in Elems(LINTS) :
          (l.root_type # "None" /\ l.root_type # root_type) =>
              /\ pc # "filter" => l \in Elems(skipped_lints)
              /\ l.name \notin CalledNames
              /\ l.name \notin LineNames
              /\ l.name \notin DOMAIN counted
    /\ \A l \in Elems(LINTS) :
          (l.root_type = "None" /\ l \in Elems(skipped_lints)) => l.name \in skip
    /\ pc # "filter" => skipped = Len(skipped_lints) /\ NoDup(skipped_lints)
    /\ r.set => r.skipped = Len(skipped_lints)

\* C3: a finished run on an Alternative root that skipped a lint restricted
\* to Running and counted an unrestricted one.
C3_Witness ==
    /\ pc = "done"
    /\ r.set
    /\ root_type = "Alternative"
    /\ \E l \in Elems(LINTS) : l.root_type = "Running" /\ l \in Elems(skipped_lints)
    /\ \E l \in Elems(LINTS) : l.root_type = "None" /\ l.name \in DOMAIN counted

(***************************************************************************)
(* C4: in a run that returns a tally every registered lint is counted in   *)
(* exactly one of passed, skipped, warnings and fatal: passed + warnings + *)
(* fatal is the number of applicable lints, skipped is the size of the     *)
(* registry minus that number, and the four counts sum to the size of the  *)
(* registry.                                                               *)
(***************************************************************************)
C4_TallyConservation ==
    r.set =>
        /\ \A l \in Elems(LINTS) :
              (l \in Elems(skipped_lints)) # (l.name \in DOMAIN counted)
        /\ r.passed = Cardinality(CountedAs("passed"))
        /\ r.warnings = Cardinality(CountedAs("warnings"))
        /\ r.fatal = Cardinality(CountedAs("fatal"))
        /\ r.skipped = Cardinality(Elems(skipped_lints))
        /\ r.passed + r.warnings + r.fatal = Len(applicable_lints)
        /\ r.skipped + Len(applicable_lints) = Len(LINTS)
        /\ r.passed + r.skipped + r.warnings + r.fatal = Len(LINTS)

\* C4: a tally with a skipped lint and a warning.
C4_Witness ==
    /\ r.set
    /\ r.skipped = 1
    /\ r.warnings = 1

\* The applicable Recursive lints and the applicable Regular lints.
RecursiveApplicable == {l \in Elems(applicable_lints) : l.f = "Recursive"}
RegularApplicable == {l \in Elems(applicable_lints) : l.f = "Regular"}

\* What the i-th call of a check function returned.
CallResult(i) ==
    IF calls[i][2] = 0 THEN results[i].res
    ELSE MkResult(tree.chk[calls[i][1]][calls[i][2]], calls[i][2])

\* No check function called so far has returned a runtime error.
NoFailureReturned == \A i \in DOMAIN calls : CallResult(i).kind # "Failure"

\* Some Regular lint has returned a runtime error.
RegularFailed ==
    \E i \in DOMAIN results : i <= Len(nonrec_lints) /\ results[i].res.kind = "Failure"

WalkFailed == ret.what = "walk"
WriteFailed == ret.what = "write"

\* The walk is over and its results are merged.
Merged == pc \notin {"filter", "nonrec", "walk"} /\ ~WalkFailed

\* The entries of results for the lint l, and the violation lines that name n.
EntriesOf(l) == {i \in DOMAIN results : results[i].lint = l}
LinesOf(n) == {i \in DOMAIN output : IsViolationLine(output[i]) /\ output[i][2] = n}

\* Every applicable lint has exactly one entry in results, every Regular
\* applicable lint has been called exactly once.
EveryApplicableHasOutcome ==
    /\ \A l \in Elems(applicable_lints) : Cardinality(EntriesOf(l)) = 1
    /\ Len(results) = Len(applicable_lints)
    /\ \A l \in RegularApplicable :
          Cardinality({i \in DOMAIN calls : calls[i] = <<l.name, 0>>}) = 1

ViolatingEntries(l) ==
    {e \in 1..tree.n : l.name \in DOMAIN tree.chk /\ tree.chk[l.name][e] = "Violation"}

(***************************************************************************)
(* C7: once a Recursive lint has returned a result that is not Ok on an    *)
(* entry it is out of the active set, it is called on no later entry and   *)
(* its recorded result stays the one of that call; no run writes two       *)
(* lines for it, and a run that returns a tally on a tree with two or more *)
(* entries violating it has one entry in results, one line and one         *)
(* increment for it.                                                       *)
(***************************************************************************)
C7_FirstFailureWins ==
    /\ \A i, j \in DOMAIN calls :
          (i < j /\ calls[i][1] = calls[j][1] /\ calls[i][2] > 0) => CallResult(i) = lint_ok
    /\ \A i \in DOMAIN calls :
          (calls[i][2] > 0 /\ CallResult(i) # lint_ok) =>
              /\ calls[i][1] \notin NameSet(InOrder(recursive_lints))
              /\ \E l \in DOMAIN recursive_errors :
                    l.name = calls[i][1] /\ recursive_errors[l] = CallResult(i)
    /\ \A l \in DOMAIN recursive_errors :
          /\ l \notin recursive_lints
          /\ \E i \in DOMAIN calls :
                calls[i][1] = l.name /\ calls[i][2] > 0 /\ CallResult(i) # lint_ok
    /\ \A l \in Elems(LINTS) : Cardinality(LinesOf(l.name)) <= 1
    /\ \A l \in RecursiveApplicable :
          (r.set /\ Cardinality(ViolatingEntries(l)) >= 2) =>
              /\ Cardinality(EntriesOf(l)) = 1
              /\ Cardinality(LinesOf(l.name)) = 1
              /\ l.name \in DOMAIN counted /\ counted[l.name] \in {"fatal", "warnings"}
              /\ r.fatal + r.warnings =
                     Cardinality({k \in DOMAIN results : results[k].res.kind = "Violation"})

\* C7: a tally returned for a tree whose two entries both violate a
\* Recursive lint.
C7_Witness ==
    /\ r.set
    /\ tree.n = 2
    /\ \E l \in RecursiveApplicable : Cardinality(ViolatingEntries(l)) = 2

\* The Recursive lint l returns Ok on entry e.
OkOn(l, e) == tree.chk[l.name][e] = "Ok"

(***************************************************************************)
(* C8: when the walk is over, a delivered entry was offered to a Recursive *)
(* lint exactly when the lint was still active there (it had returned Ok   *)
(* on every entry delivered before), and the lint's result is Ok, and      *)
(* counted in passed by a run that returns a tally, if and only if its     *)
(* check returns Ok on every entry of the tree; otherwise its result is    *)
(* what it returned on the first delivered entry where it was not Ok.      *)
(***************************************************************************)
C8_PassedIffOkEverywhere ==
    Merged =>
        \A l \in RecursiveApplicable :
            /\ \A k \in DOMAIN visited :
                  (<<l.name, visited[k]>> \in Elems(calls))
                      <=> (\A j \in 1..(k - 1) : OkOn(l, visited[j]))
            /\ \E i \in EntriesOf(l) :
                  /\ (results[i].res = lint_ok) <=> (\A e \in 1..tree.n : OkOn(l, e))
                  /\ results[i].res # lint_ok =>
                        \E k \in DOMAIN visited :
                            /\ \A j \in 1..(k - 1) : OkOn(l, visited[j])
                            /\ ~OkOn(l, visited[k])
                            /\ results[i].res = CallRecursive(tree, l, visited[k])
            /\ r.set =>
                  ((l.name \in CountedAs("passed")) <=> (\A e \in 1..tree.n : OkOn(l, e)))

\* C8: a tally in which one Recursive lint passed on a tree of two entries
\* and another was violated on the second entry delivered.
C8_Witness ==
    /\ r.set
    /\ tree.n = 2
    /\ \E l1, l2 \in RecursiveApplicable :
          /\ l1.name \in CountedAs("passed")
          /\ OkOn(l2, visited[1])
          /\ tree.chk[l2.name][visited[2]] = "Violation"

(***************************************************************************)
(* C9: in a run that returns a tally, a lint whose result is a violation   *)
(* has incremented fatal if it is Fatal and warnings if it is Warning and  *)
(* has written exactly one line, "Failed lint" or "Lint warning", with its *)
(* name and message; a lint whose result is Ok has incremented passed and  *)
(* written nothing; the "Failed lint" lines are as many as fatal and the   *)
(* "Lint warning" lines as many as warnings.                               *)
(***************************************************************************)
C9_ViolationAccounting ==
    r.set =>
        /\ \A i \in DOMAIN results :
              LET l == results[i].lint
                  res == results[i].res
              IN /\ (res.kind = "Violation" /\ l.ty = "Fatal") =>
                        /\ l.name \in CountedAs("fatal")
                        /\ \E k \in DOMAIN output :
                              /\ output[k] = <<"Failed lint", l.name, res.msg>>
                              /\ LinesOf(l.name) = {k}
                 /\ (res.kind = "Violation" /\ l.ty = "Warning") =>
                        /\ l.name \in CountedAs("warnings")
                        /\ \E k \in DOMAIN output :
                              /\ output[k] = <<"Lint warning", l.name, res.msg>>
                              /\ LinesOf(l.name) = {k}
                 /\ res.kind = "Ok" =>
                        /\ l.name \in CountedAs("passed")
                        /\ LinesOf(l.name) = {}
        /\ r.fatal = Cardinality({k \in DOMAIN output : output[k][1] = "Failed lint"})
        /\ r.warnings = Cardinality({k \in DOMAIN output : output[k][1] = "Lint warning"})
        /\ r.fatal = Cardinality({i \in DOMAIN results :
                         results[i].res.kind = "Violation" /\ results[i].lint.ty = "Fatal"})
        /\ r.warnings = Cardinality({i \in DOMAIN results :
                         results[i].res.kind = "Violation" /\ results[i].lint.ty = "Warning"})
        /\ r.passed = Cardinality({i \in DOMAIN results : results[i].res.kind = "Ok"})

\* C9: a tally with one fatal violation and one warning.
C9_Witness ==
    /\ r.set
    /\ r.fatal = 1
    /\ r.warnings = 1

\* The count the verdict is decided on, from the tally and the disposition.
EffectiveCount ==
    IF warning_disposition = "FatalWarnings" THEN r.fatal + r.warnings ELSE r.fatal

(***************************************************************************)
(* C10, as stated: when lint_inner has returned a tally, lint returns an   *)
(* error if and only if the effective fatal count (fatal, plus warnings    *)
(* under FatalWarnings) is not zero, and the error carries that count.     *)
(***************************************************************************)
C10_Original ==
    (r.set /\ pc = "done") =>
        /\ ret.kind = "Err" <=> EffectiveCount > 0
        /\ ret.kind = "Err" => ret = RetErr("Checks failed", EffectiveCount)
        /\ ret.kind # "Err" => ret = RetOk

(***************************************************************************)
(* C10, amended: when lint_inner has returned a tally and every summary    *)
(* line is written, lint returns an error if and only if the effective     *)
(* fatal count (fatal, plus warnings under FatalWarnings) is not zero, and *)
(* the error carries that count; when the write of a summary line fails,   *)
(* lint returns that error whatever the count.                             *)
(***************************************************************************)
C10_Disposition ==
    (r.set /\ pc = "done") =>
        IF WriteFailed THEN ret = RetErr("write", 0)
        ELSE /\ ret.kind = "Err" <=> EffectiveCount > 0
             /\ ret.kind = "Err" => ret = RetErr("Checks failed", EffectiveCount)
             /\ ret.kind # "Err" => ret = RetOk

\* C10: a run with no fatal violation and a warning that fails under
\* FatalWarnings, with the count of the warnings.
C10_Witness ==
    /\ pc = "done"
    /\ r.set /\ r.fatal = 0 /\ r.warnings > 0
    /\ warning_disposition = "FatalWarnings"
    /\ ret = RetErr("Checks failed", r.warnings)

\* C10: the same tally succeeds under AllowWarnings.
C10_WitnessAllow ==
    /\ pc = "done"
    /\ r.set /\ r.fatal = 0 /\ r.warnings > 0
    /\ warning_disposition = "AllowWarnings"
    /\ ret = RetOk

\* The violation lines and the summary lines of the transcript, each in the
\* order they were written.
ViolationPart == SelectSeq(output, IsViolationLine)
SummaryPart == SelectSeq(output, LAMBDA x : ~IsViolationLine(x))

\* The summary lines lint writes for the tally r.
ExpectedSummary ==
    <<<<"Checks passed", r.passed, 0>>>>
    \o (IF r.skipped > 0 THEN <<<<"Checks skipped", r.skipped, 0>>>> ELSE <<>>)
    \o (IF r.warnings > 0 THEN <<<<"Warnings", r.warnings, 0>>>> ELSE <<>>)

\* s is a prefix of t.
IsPrefix(s, t) == Len(s) <= Len(t) /\ s = SubSeq(t, 1, Len(s))

(***************************************************************************)
(* C11, as stated: when lint_inner has returned a tally and lint is over,  *)
(* the transcript is the violation lines followed by "Checks passed: N"    *)
(* (also when N = 0), "Checks skipped: N" only when skipped > 0 and        *)
(* "Warnings: N" only when warnings > 0, in this order.                    *)
(***************************************************************************)
C11_Original ==
    (r.set /\ pc = "done") => output = ViolationPart \o ExpectedSummary

(***************************************************************************)
(* C11, amended: in every run the violation lines precede the summary      *)
(* lines, no summary line is written before lint_inner returns a tally,    *)
(* and the summary lines written so far are the first ones of "Checks      *)
(* passed: N" (also when N = 0), "Checks skipped: N" only when skipped >   *)
(* 0, "Warnings: N" only when warnings > 0; when lint is over, lint_inner  *)
(* has returned a tally and no write of a summary line has failed, they    *)
(* are all there, whatever the verdict.                                    *)
(***************************************************************************)
C11_SummaryLines ==
    /\ output = ViolationPart \o SummaryPart
    /\ ~r.set => SummaryPart = <<>>
    /\ r.set => IsPrefix(SummaryPart, ExpectedSummary)
    /\ (r.set /\ pc = "done" /\ ~WriteFailed) => SummaryPart = ExpectedSummary
    /\ (r.set /\ pc = "done" /\ WriteFailed) => SummaryPart # ExpectedSummary

\* C11: a failed run whose transcript is a violation line, "Checks passed: 0",
\* "Checks skipped: 1" and "Warnings: 1".
C11_Witness ==
    /\ pc = "done"
    /\ ret.what = "Checks failed"
    /\ r.set /\ r.passed = 0 /\ r.skipped = 1 /\ r.warnings = 1
    /\ Len(ViolationPart) = 1
    /\ Len(output) = 4

\* The check shape of the registered lint named n.
ShapeOf(n) == (CHOOSE l \in Elems(LINTS) : l.name = n).f

(***************************************************************************)
(* C13, as stated: the violation lines of the transcript are in ascending  *)
(* order of lint name, whatever the shape (Regular or Recursive) of the    *)
(* lints they name.                                                        *)
(***************************************************************************)
C13_Original ==
    \A i, j \in DOMAIN ViolationPart :
        i < j => ViolationPart[i][2] < ViolationPart[j][2]

(***************************************************************************)
(* C13, amended: the violation lines of the transcript are in two blocks,  *)
(* the lines of the Regular lints and then the lines of the Recursive      *)
(* lints, each block in ascending order of lint name; a Recursive lint's   *)
(* line never precedes a Regular lint's, whatever their names.  The        *)
(* entries of results are in the same order once the walk is merged.       *)
(***************************************************************************)
C13_TwoBlocks ==
    /\ \A i, j \in DOMAIN ViolationPart :
          i < j =>
              LET a == ViolationPart[i][2]
                  b == ViolationPart[j][2]
              IN /\ ShapeOf(a) = ShapeOf(b) => a < b
                 /\ ShapeOf(a) # ShapeOf(b) =>
                        ShapeOf(a) = "Regular" /\ ShapeOf(b) = "Recursive"
    /\ Merged =>
          \A i, j \in DOMAIN results :
              i < j =>
                  LET a == results[i].lint
                      b == results[j].lint
                  IN /\ a.f = b.f /\ results[i].res.kind = results[j].res.kind
                            => a.name < b.name
                     /\ a.f # b.f => a.f = "Regular"

\* C13: a transcript whose first violation line names the Regular lint 2 and
\* whose second names the Recursive lint 1.
C13_Witness ==
    /\ Len(ViolationPart) = 2
    /\ ViolationPart[1][2] = 2 /\ ShapeOf(2) = "Regular"
    /\ ViolationPart[2][2] = 1 /\ ShapeOf(1) = "Recursive"

\* Some applicable lint's recorded outcome is a runtime error: a Regular
\* lint's result, or the error recorded for a Recursive lint when it was
\* removed from the active set.
FailureRecorded ==
    \/ \E i \in DOMAIN results : results[i].res.kind = "Failure"
    \/ \E l \in DOMAIN recursive_errors : recursive_errors[l].kind = "Failure"

\* The lint named n has been called and has returned a runtime error.
ReturnedFailure(n) ==
    \E i \in DOMAIN calls : calls[i][1] = n /\ CallResult(i).kind = "Failure"

\* lint has returned the unexpected error, and it names the first entry of
\* results whose result is a runtime error, a lint that returned one.
UnexpectedErrorNamesCulprit ==
    /\ ret.kind = "Err"
    /\ ret.what = "Unexpected runtime error running lint"
    /\ ReturnedFailure(ret.n)
    /\ \E i \in DOMAIN results :
          /\ results[i].res.kind = "Failure"
          /\ results[i].lint.name = ret.n
          /\ \A j \in 1..(i - 1) : results[j].res.kind # "Failure"

(***************************************************************************)
(* C14, as stated: when lint is over and the recorded outcome of some      *)
(* applicable lint is a runtime error, lint has returned the unexpected    *)
(* error naming a lint that returned a runtime error, no tally, no "Checks *)
(* failed" verdict, and the transcript has no "Checks passed" line.        *)
(***************************************************************************)
C14_Original ==
    (pc = "done" /\ FailureRecorded) =>
        /\ UnexpectedErrorNamesCulprit
        /\ ~r.set
        /\ SummaryPart = <<>>

(***************************************************************************)
(* C14, amended: once the recorded outcome of some applicable lint is a    *)
(* runtime error, lint returns no tally and no "Checks failed" verdict and *)
(* writes no summary line, and when it is over it has returned an error:   *)
(* the walk's if the walk failed, the sink's if the write of the violation *)
(* line of an earlier lint failed, and otherwise the unexpected error,     *)
(* which names the first lint in the order of the merge whose recorded     *)
(* outcome is a runtime error, a lint that did return one.                 *)
(***************************************************************************)
C14_UnexpectedError ==
    FailureRecorded =>
        /\ ~r.set
        /\ SummaryPart = <<>>
        /\ ret.kind # "Ok" /\ ret.what # "Checks failed"
        /\ pc = "done" =>
              /\ ret.kind = "Err"
              /\ (~WalkFailed /\ ~WriteFailed) => UnexpectedErrorNamesCulprit
              /\ ret.what = "Unexpected runtime error running lint" =>
                     UnexpectedErrorNamesCulprit

\* C14: lint has returned the unexpected error naming a Recursive lint that
\* was removed from the active set for a runtime error, after the violation
\* line of a Regular lint was written.
C14_Witness ==
    /\ pc = "done"
    /\ Len(output) = 1
    /\ \E l \in DOMAIN recursive_errors :
          /\ recursive_errors[l].kind = "Failure"
          /\ ret = RetErr("Unexpected runtime error running lint", l.name)

\* The positions in calls of the calls of Regular lints (on the root) and of
\* Recursive lints (on an entry of the walk).
RegularCalls == {i \in DOMAIN calls : calls[i][2] = 0}
EntryCalls == {i \in DOMAIN calls : calls[i][2] > 0}

(***************************************************************************)
(* C19: the Regular lints are called on the root in ascending order of     *)
(* name, none twice and none that is not applicable; no Regular lint is    *)
(* called after a Recursive lint was called on an entry, and the walk      *)
(* delivers no entry while the loop over the Regular lints runs; once that *)
(* loop is over every applicable Regular lint has been called exactly      *)
(* once, and the walk and what follows call none.                          *)
(***************************************************************************)
C19_RegularBeforeWalk ==
    /\ \A i, j \in RegularCalls : i < j => calls[i][1] < calls[j][1]
    /\ \A i \in RegularCalls : \E l \in RegularApplicable : l.name = calls[i][1]
    /\ \A i \in EntryCalls : \A j \in RegularCalls : j < i
    /\ pc \in {"filter", "nonrec"} => visited = <<>> /\ EntryCalls = {}
    /\ pc \notin {"filter", "nonrec"} =>
          /\ \A l \in RegularApplicable :
                Cardinality({i \in RegularCalls : calls[i][1] = l.name}) = 1
          /\ Cardinality(RegularCalls) = Len(nonrec_lints)
          /\ \A i \in RegularCalls : i <= Len(nonrec_lints)

\* C19: two Regular lints registered in descending order of name were called
\* in ascending order, and then the walk delivered an entry.
C19_Witness ==
    /\ Len(LINTS) = 2
    /\ LINTS[1].name > LINTS[2].name
    /\ calls = <<<<LINTS[2].name, 0>>, <<LINTS[1].name, 0>>>>
    /\ visited # <<>>

\* C19: a Regular lint was called, and then a Recursive lint of a smaller
\* name on an entry of the walk.
C19_WitnessWalk ==
    /\ Len(calls) >= 2
    /\ calls[1][2] = 0
    /\ calls[2][2] > 0
    /\ calls[2][1] < calls[1][1]

\* The result the walk records for the Recursive lint l when it delivers
\* every entry of the tree in the order `order`: that of the first entry on
\* which the lint is not Ok, or Ok when there is none.
RECURSIVE FirstNotOk(_, _)
FirstNotOk(l, order) ==
    IF order = <<>> THEN lint_ok
    ELSE IF ~OkOn(l, Head(order)) THEN CallRecursive(tree, l, Head(order))
    ELSE FirstNotOk(l, Tail(order))

\* The entries of the tree the walk has not delivered, in ascending order.
RECURSIVE Ascending(_)
Ascending(S) ==
    IF S = {} THEN <<>>
    ELSE LET lo == CHOOSE x \in S : \A y \in S : x <= y
         IN <<lo>> \o Ascending(S \ {lo})

Undelivered == Ascending((1..tree.n) \ Elems(visited))

\* The result recorded so far for the Recursive lint l.
RecordedFor(l) == IF l \in DOMAIN recursive_errors THEN recursive_errors[l] ELSE lint_ok

\* What a step of the walk's callback does with an empty and with a non-empty
\* active set.
C20_EarlyStopStep ==
    [][ /\ (pc = "walk" /\ recursive_lints = {} /\ visited' # visited) =>
              /\ broke'
              /\ calls' = calls
              /\ recursive_errors' = recursive_errors
        /\ (pc = "walk" /\ recursive_lints = {}) => recursive_lints' = {}
        /\ broke => (calls' = calls /\ recursive_errors' = recursive_errors)
        /\ (pc = "walk" /\ visited' # visited /\ recursive_lints # {}) =>
              (~broke' /\ Len(calls') = Len(calls) + Cardinality(recursive_lints)) ]_vars

\* The entry visited[k] was delivered while the active set was empty: every
\* applicable Recursive lint had been not Ok on an entry delivered before.
FoundEmpty(k) ==
    \A l \in RecursiveApplicable : \E j \in 1..(k - 1) : ~OkOn(l, visited[j])

C20_EarlyStopState ==
    /\ broke => recursive_lints = {} /\ visited # <<>>
    /\ broke <=> \E k \in DOMAIN visited : FoundEmpty(k)
    /\ (pc # "filter" /\ RecursiveApplicable = {}) => EntryCalls = {}
    /\ \A i \in EntryCalls :
          \E k \in DOMAIN visited :
              /\ visited[k] = calls[i][2]
              /\ ~FoundEmpty(k)
    /\ Merged =>
          \A l \in RecursiveApplicable :
              \E i \in EntriesOf(l) :
                  /\ results[i].res = RecordedFor(l)
                  /\ results[i].res = FirstNotOk(l, visited \o Undelivered)

(***************************************************************************)
(* C20: an entry delivered while the active set is empty makes the         *)
(* callback return Break without calling a check function, and the active  *)
(* set stays empty, so no later entry has one called either; when no       *)
(* Recursive lint is applicable no check function is ever called on an     *)
(* entry; a walk that stopped early has recorded for every Recursive lint  *)
(* the result a walk delivering the remaining entries too would record.    *)
(***************************************************************************)
C20_EarlyStop == []C20_EarlyStopState /\ C20_EarlyStopStep

\* C20: the walk of a tree of two entries was stopped at the second entry,
\* after the only Recursive lint had found a violation on the first, and the
\* run returned a tally.
C20_Witness ==
    /\ r.set
    /\ broke
    /\ tree.n = 2
    /\ Len(visited) = 2
    /\ Len(calls) = 1
    /\ calls[1][2] = visited[1]
    /\ \E l \in RecursiveApplicable : ~OkOn(l, visited[2])

\* A run is over without a failure of the walk or of the output sink.
NoIoFailure(rt) == rt.kind # "pending" /\ rt.what \notin {"walk", "write"}

\* A run is over and has returned its verdict: Ok(()) or "Checks failed".
ReturnedVerdict(rt) == rt.kind # "pending" /\ rt.what \in {"", "Checks failed"}

(***************************************************************************)
(* C12: when lint has run twice in a process with the same arguments on    *)
(* the same tree, and both runs have returned a verdict (no check, walk or *)
(* write failed in either), the two transcripts are the same and the two   *)
(* verdicts are the same, whatever the order in which each walk delivered  *)
(* the entries.                                                            *)
(***************************************************************************)
C12_Determinism ==
    (prev.set /\ pc = "done" /\ ReturnedVerdict(prev.ret) /\ ReturnedVerdict(ret)) =>
        /\ output = prev.output
        /\ ret = prev.ret

\* The two walks delivered the entries in the same order, as far as both went.
SameOrder ==
    \A k \in DOMAIN visited \cap DOMAIN prev.visited : visited[k] = prev.visited[k]

\* C12, as far as the code goes: the second run starts from nothing but the
\* registry and the arguments, and two runs whose walks deliver the entries
\* in the same order write the same transcript and return the same verdict.
C12_SameOrderSameTranscript ==
    /\ (prev.set /\ pc = "filter") =>
          recursive_lints = {} /\ DOMAIN recursive_errors = {} /\ results = <<>>
    /\ (prev.set /\ pc = "done" /\ NoIoFailure(prev.ret) /\ NoIoFailure(ret) /\ SameOrder) =>
          /\ output = prev.output
          /\ ret = prev.ret

\* C12: two runs over a tree of two entries that both violate a Recursive
\* lint, the second walk in the other order than the first.
C12_Witness ==
    /\ prev.set /\ pc = "done"
    /\ ReturnedVerdict(prev.ret) /\ ReturnedVerdict(ret)
    /\ ret = prev.ret
    /\ output # prev.output
    /\ tree.n = 2
    /\ visited = <<2, 1>> /\ prev.visited = <<1, 2>>
    /\ \E l \in RecursiveApplicable : Cardinality(ViolatingEntries(l)) = 2

\* The keys of a mapping of the document, and the value it has for a key.
KeysOf(m) == {m[i][1] : i \in DOMAIN m}
ValueOf(m, key) == m[CHOOSE i \in DOMAIN m : m[i][1] = key][2]

\* The mapping m describes the lint l: its name, its type and its
\* description, its root type if and only if one is set, and nothing else
\* (no key for the check function).
Describes(m, l) ==
    /\ KeysOf(m) = {"name", "type", "description"}
                   \cup (IF l.root_type = "None" THEN {} ELSE {"root-type"})
    /\ Len(m) = Cardinality(KeysOf(m))
    /\ ValueOf(m, "name") = l.name
    /\ ValueOf(m, "type") = (IF l.ty = "Fatal" THEN "fatal" ELSE "warning")
    /\ ValueOf(m, "description") = DescriptionOf(l)
    /\ l.root_type # "None" => ValueOf(m, "root-type") = l.root_type

\* The sink holds one document, with one mapping for each registered lint,
\* in the order of the registry.
ListsTheRegistry ==
    /\ Len(output) = 1
    /\ output[1].complete
    /\ Len(output[1].entries) = Len(LINTS)
    /\ \A i \in DOMAIN LINTS : Describes(output[1].entries[i], LINTS[i])

(***************************************************************************)
(* C15, as stated: when lint_list is over the sink holds one document with *)
(* exactly one mapping per registered lint, in the order of the registry,  *)
(* each with the lint's name, type and description, with its root type     *)
(* only when one is set, and without its check function.                   *)
(***************************************************************************)
C15_Original ==
    pc = "done" => ListsTheRegistry

\* What the sink holds and what lint_list has returned, before and after the
\* call.
C15_ListState ==
    /\ pc = "list" => output = <<>> /\ ret = Pending
    /\ pc = "done" =>
          /\ ret \in {RetOk, RetErr("write", 0)}
          /\ ret = RetOk <=> ListsTheRegistry
          /\ Len(output) = 1
          /\ Len(output[1].entries) <= Len(LINTS)
          /\ \A i \in DOMAIN output[1].entries :
                Describes(output[1].entries[i], LINTS[i])

(***************************************************************************)
(* C15, amended: when lint_list has returned Ok the sink holds one         *)
(* document with exactly one mapping per registered lint, in the order of  *)
(* the registry, each with the lint's name, type and description, with its *)
(* root type only when one is set, and without its check function; when    *)
(* the write fails lint_list returns that error and the sink holds no      *)
(* mapping that is not of the registry, at its place; lint_list never      *)
(* changes the registry.                                                   *)
(***************************************************************************)
C15_List == []C15_ListState /\ [][LINTS' = LINTS]_vars

\* C15: lint_list has listed a registry of two lints, the first restricted to
\* a root type and the second not.
C15_Witness ==
    /\ pc = "done"
    /\ ret = RetOk
    /\ Len(LINTS) = 2
    /\ LINTS[1].root_type # "None" /\ LINTS[2].root_type = "None"
    /\ LINTS[1].name > LINTS[2].name
    /\ Len(output[1].entries[1]) = 4 /\ Len(output[1].entries[2]) = 3

\* Every directory above the path p is a real directory: the scan of var/log
\* gets to p without going through a symlink.
Scanned(t, p) == \A k \in 1..(Len(p) - 1) : t[SubSeq(p, 1, k)].ty = "dir"

\* The regular files of size > 0 below var/log, at any depth, symlinks not
\* followed; and whether an operation on some entry the scan gets to fails.
NonemptyRegfiles(t) ==
    {p \in VarLogPaths : Scanned(t, p) /\ t[p].ty = "file" /\ t[p].size > 0}
SomeEntryFails(t) ==
    \E p \in VarLogPaths : Scanned(t, p) /\ t[p] # Absent /\ ~t[p].ok

\* The first index at which two different sequences differ (one past the
\* end of the shorter one when it is a prefix of the other).
FirstDiff(a, b) ==
    CHOOSE k \in 1..(Len(a) + Len(b) + 1) :
        /\ \A i \in 1..(k - 1) : i <= Len(a) /\ i <= Len(b) /\ a[i] = b[i]
        /\ k > Len(a) \/ k > Len(b) \/ a[k] # b[k]

\* a comes before b, a # b, in the order of the bytes.
BytesBefore(a, b) ==
    LET k == FirstDiff(a, b) IN k > Len(a) \/ (k <= Len(b) /\ a[k] < b[k])

\* The path p comes before q, p # q, as a string, and component by component.
StringBefore(p, q) == BytesBefore(Flatten(p), Flatten(q))
ComponentsBefore(p, q) ==
    LET k == FirstDiff(p, q) IN k > Len(p) \/ (k <= Len(q) /\ BytesBefore(p[k], q[k]))

\* The suffix of the message is " (and N more)" with N the number of the
\* files minus one, and is there only when N > 0.
SuffixCounts(msg, S) ==
    /\ msg.others = Cardinality(S) - 1
    /\ msg.more <=> Cardinality(S) - 1 > 0

(***************************************************************************)
(* C17, as stated: check_varlog returns a violation if and only if var/log *)
(* holds, at any depth and not through a symlink, a regular file of size   *)
(* > 0; the message then names the least such path in the lexicographic    *)
(* order of the path strings, and its suffix counts the other ones; a      *)
(* missing var/log passes.                                                 *)
(***************************************************************************)
C17_Original ==
    pc = "done" =>
        LET S == NonemptyRegfiles(root.t)
        IN /\ lres.kind = "Violation" <=> S # {}
           /\ lres.kind = "Violation" =>
                 /\ \E p \in S : /\ lres.msg.first = Flatten(p)
                                 /\ \A q \in S \ {p} : StringBefore(p, q)
                 /\ SuffixCounts(lres.msg, S)
           /\ root.varlog = "missing" => lres = lint_ok

(***************************************************************************)
(* C17, amended: check_varlog returns a runtime error if and only if       *)
(* var/log cannot be opened or an operation fails on an entry the scan     *)
(* gets to (a name that is not UTF-8, for one); otherwise it returns a     *)
(* violation if and only if var/log holds, at any depth and not through a  *)
(* symlink, a regular file of size > 0; the message then names the least   *)
(* such path in the order of paths, component by component (a file under   *)
(* the directory "a" comes before the file "a-", which the order of the    *)
(* strings puts first), and its suffix counts the other ones; a missing    *)
(* var/log passes.                                                         *)
(***************************************************************************)
C17_Varlog ==
    pc = "done" =>
        LET S == NonemptyRegfiles(root.t)
        IN /\ lres.kind \in Kinds
           /\ lres.kind = "Failure" <=>
                 (root.varlog = "unopenable" \/ SomeEntryFails(root.t))
           /\ lres.kind # "Failure" => (lres.kind = "Violation" <=> S # {})
           /\ lres.kind = "Violation" =>
                 /\ \E p \in S : /\ lres.msg.first = Flatten(p)
                                 /\ \A q \in S \ {p} : ComponentsBefore(p, q)
                 /\ SuffixCounts(lres.msg, S)
           /\ root.varlog = "missing" => lres = lint_ok

\* C17: var/log holds the non-empty files a-, a/b and b, a symlink aside;
\* the message names a/b and says "(and 2 more)".
C17_Witness ==
    /\ pc = "done"
    /\ NonemptyRegfiles(root.t) = {<<NameADash>>, <<NameA, NameB>>, <<NameB>>}
    /\ lres.kind = "Violation"
    /\ lres.msg.first = <<Slash, LetterA, Slash, LetterB>>
    /\ lres.msg.others = 2 /\ lres.msg.more

\* C17: var/log holds only a symlink to a non-empty file and a symlink to a
\* directory with a non-empty file, and an empty file: it passes.
C17_WitnessSymlinks ==
    /\ pc = "done"
    /\ root.t[<<NameA>>].ty = "symlink" /\ root.t[<<NameA>>].size > 0
    /\ root.t[<<NameADash>>].ty = "symlink"
    /\ root.t[<<NameADash, NameB>>].ty = "file" /\ root.t[<<NameADash, NameB>>].size > 0
    /\ root.t[<<NameB>>].ty = "file" /\ root.t[<<NameB>>].size = 0
    /\ lres = lint_ok

\* The file name a Debug-formatted text stands for: the quotes dropped and
\* every \xFF read back as the byte 0xFF.
RECURSIVE Unescape(_)
Unescape(txt) ==
    IF txt = <<>> THEN <<>>
    ELSE IF Head(txt) = Backslash /\ Len(txt) >= 4
         THEN <<ByteFF>> \o Unescape(SubSeq(txt, 5, Len(txt)))
         ELSE <<Head(txt)>> \o Unescape(Tail(txt))

Unquote(txt) == Unescape(SubSeq(txt, 2, Len(txt) - 1))

\* The text of a path: "/" for the root, otherwise each name after a '/'.
RECURSIVE PathText(_)
PathText(p) ==
    IF p = <<>> THEN <<>> ELSE PathText(SubSeq(p, 1, Len(p) - 1)) \o <<Slash>> \o p[Len(p)]

\* res is the violation for the name of the entry c: it names the directory
\* of the entry and the escaped name, which holds no raw 0xFF and reads back
\* as the name.
IsFilenameViolation(res, c) ==
    /\ res.kind = "Violation"
    /\ res.msg.text = "Found non-utf8 filename"
    /\ res.msg.where = (IF c.dir = <<>> THEN <<Slash>> ELSE PathText(c.dir))
    /\ \A i \in DOMAIN res.msg.name : res.msg.name[i] # ByteFF
    /\ res.msg.name[1] = Quote /\ res.msg.name[Len(res.msg.name)] = Quote
    /\ Unquote(res.msg.name) = c.filename

\* res is the violation for the target of the symlink c: it names the path
\* of the symlink itself.
IsTargetViolation(res, c) ==
    /\ res.kind = "Violation"
    /\ res.msg.text = "Found non-utf8 symlink target"
    /\ res.msg.where = PathText(c.dir) \o <<Slash>> \o c.filename

\* The cases of check_utf8.
BadName == \E i \in DOMAIN entry.filename : entry.filename[i] = ByteFF
BadTarget ==
    /\ entry.file_type = "symlink" /\ entry.link.ok
    /\ \E i \in DOMAIN entry.link.bytes : entry.link.bytes[i] = ByteFF
UnreadableLink == entry.file_type = "symlink" /\ ~entry.link.ok

(***************************************************************************)
(* C18, as stated: check_utf8 returns the filename violation, naming the   *)
(* parent path and the escaped name, whenever the name of the entry is not *)
(* valid text, and has then not read the target of a symlink; for a        *)
(* symlink with a valid name whose target is not valid text it returns the *)
(* other violation, naming the path of the symlink; in every other case it *)
(* returns Ok.                                                             *)
(***************************************************************************)
C18_Original ==
    pc = "done" =>
        /\ BadName => IsFilenameViolation(lres, entry) /\ ~link_read
        /\ (~BadName /\ BadTarget) => IsTargetViolation(lres, entry)
        /\ (~BadName /\ ~BadTarget) => lres = lint_ok

(***************************************************************************)
(* C18, amended: check_utf8 returns the filename violation, naming the     *)
(* parent path and the escaped name, whenever the name of the entry is not *)
(* valid text, and has then not read the target of a symlink; for a        *)
(* symlink with a valid name it reads the target: when that fails it       *)
(* returns the runtime error, when the target is not valid text it returns *)
(* the other violation, naming the path of the symlink; in every other     *)
(* case it returns Ok.  It reads the target of nothing but a symlink with  *)
(* a valid name.                                                           *)
(***************************************************************************)
C18_Utf8 ==
    pc = "done" =>
        /\ BadName => IsFilenameViolation(lres, entry) /\ ~link_read
        /\ (~BadName /\ UnreadableLink) => lres.kind = "Failure"
        /\ (~BadName /\ BadTarget) => IsTargetViolation(lres, entry)
        /\ (~BadName /\ ~BadTarget /\ ~UnreadableLink) => lres = lint_ok
        /\ link_read <=> (~BadName /\ entry.file_type = "symlink")
        /\ IsFilenameViolation(lres, entry) => ~IsTargetViolation(lres, entry)

\* C18: a symlink of /a whose name and whose target both hold 0xFF got the
\* filename violation, and its target was not read.
C18_Witness ==
    /\ pc = "done"
    /\ entry.file_type = "symlink"
    /\ entry.dir = <<NameA>>
    /\ entry.filename = <<LetterA, ByteFF>>
    /\ BadTarget
    /\ lres.kind = "Violation"
    /\ lres.msg.where = <<Slash, LetterA>>
    /\ lres.msg.name = <<Quote, LetterA, Backslash, LowerX, UpperF, UpperF, Quote>>
    /\ ~link_read

\* C18: a symlink of the root with a valid name and a target that holds 0xFF
\* got the violation that names the symlink.
C18_WitnessTarget ==
    /\ pc = "done"
    /\ entry.dir = <<>>
    /\ entry.filename = <<LetterA, LetterA>>
    /\ BadTarget
    /\ lres.msg = [text |-> "Found non-utf8 symlink target",
                   where |-> <<Slash, LetterA, LetterA>>, name |-> <<>>]

(***************************************************************************)
(* C21: when the walk itself fails, lint returns the walk's error: it      *)
(* returns no tally and the output sink holds nothing, neither a line for  *)
(* a violation already collected from a Regular or a Recursive lint nor a  *)
(* summary line; and nothing is written before the walk is over.           *)
(***************************************************************************)
C21_WalkFailureAborts ==
    /\ pc \in {"filter", "nonrec", "walk"} => output = <<>> /\ ~r.set
    /\ ret = RetErr("walk", 0) =>
          /\ pc = "done"
          /\ ret.kind = "Err"
          /\ ~r.set
          /\ fatal = 0 /\ warnings = 0 /\ passed = 0
          /\ output = <<>>

\* C21: the walk failed after a Regular lint and a Recursive lint had each
\* returned a violation.
C21_Witness ==
    /\ ret = RetErr("walk", 0)
    /\ \E i \in DOMAIN results : results[i].res.kind = "Violation"
    /\ \E l \in DOMAIN recursive_errors : recursive_errors[l].kind = "Violation"
    /\ visited # <<>>

\* Event i is a successful uid change.
ChangedAt(i) == events[i].ev = "change"

\* The uid change of event i was followed by the read of the same user's file
\* under the changed uid and then by the restore of the uid of entry.
ReadAndRestored(i) ==
    /\ i + 2 <= Len(events)
    /\ events[i + 1] = [ev |-> "read", name |-> events[i].name, euid |-> events[i].euid]
    /\ events[i + 2] = [ev |-> "restore", name |-> events[i].name, euid |-> at_entry.euid]

\* The names of the users whose file has been read.
ReadNames == {events[i].name : i \in {j \in DOMAIN events : events[j].ev = "read"}}

(***************************************************************************)
(* C22: in get_all_users_keys the effective uid of the thread differs from *)
(* its value at entry only while a user's authorized_keys file is being    *)
(* read, and the guard exists exactly then: at the start of every          *)
(* iteration, after the block and when the function has returned, with a   *)
(* value or an error, the effective uid is the one at entry and no guard   *)
(* is left; every successful uid change is followed by the read of that    *)
(* user's file and then by the restore, whether the read succeeds or       *)
(* fails, and the restore never fails; when the uid change fails no guard  *)
(* exists, the uids are what they were, nothing is restored and the error  *)
(* is returned without the file being read.                                *)
(***************************************************************************)
C22_UidRestored ==
    /\ pc # "panic"
    /\ pc # "read" =>
          /\ thread.euid = at_entry.euid
          /\ uid_change = NoGuard
    /\ pc = "read" =>
          /\ uid_change = [some |-> TRUE, uid |-> at_entry.ruid, euid |-> at_entry.euid]
          /\ thread.euid = user_info.uid
          /\ events # <<>> /\ ChangedAt(Len(events))
    /\ thread.ruid = at_entry.ruid
    /\ keys_ret # Pending <=> pc = "done"
    /\ \A i \in DOMAIN events :
          /\ ChangedAt(i) => \/ i = Len(events) /\ pc = "read"
                             \/ ReadAndRestored(i)
          /\ events[i].ev = "read" => i > 1 /\ ChangedAt(i - 1)
          /\ events[i].ev = "restore" => i > 2 /\ ChangedAt(i - 2)
          /\ events[i].ev = "change failed" =>
                /\ i = Len(events)
                /\ i > 1 => events[i - 1].ev = "restore"
                /\ pc = "done"
                /\ keys_ret = RetErr("setting effective uid failed", 0)
                /\ events[i].name \notin ReadNames
                /\ events[i].euid = at_entry.euid

\* C22: the function returned the error of a failed read after it had read
\* one user's file under an effective uid that is not the one of entry, and
\* in the same run one user's file before.
C22_Witness ==
    /\ pc = "done"
    /\ keys_ret = RetErr("Failed to read user's authorized keys", 0)
    /\ Len(events) = 6
    /\ events[4].euid # at_entry.euid
    /\ events[5].euid # at_entry.euid
    /\ Len(all_users_authorized_keys) = 1

\* C22: the uid change failed for the second user whose file was to be read.
C22_WitnessChangeFails ==
    /\ keys_ret = RetErr("setting effective uid failed", 0)
    /\ Len(events) = 4
    /\ events[1].euid # at_entry.euid

====
